---- MODULE Spec2Model ----
(***************************************************************************)
(* Model of the topoma raster-export workflow: the App component           *)
(* (src/unnamed/part_000), the map component                               *)
(* (src/topoma2026-main/components/MapComponent.tsx, first variant) and    *)
(* the geo service (src/unnamed/part_001).                                 *)
(*                                                                         *)
(* Units.  Map coordinates are EPSG:3857 metres (integers).  Latitudes and *)
(* longitudes are milli-degrees.  Resolutions are in 1/100000 m per pixel  *)
(* (10 micrometres), so that every product stays below 2^31.               *)
(***************************************************************************)
EXTENDS Integers, Sequences, FiniteSets, TLC

(***************************************************************************)
(* Bounds of the model.                                                    *)
(***************************************************************************)
\* exports (startClipping invocations) that may be in flight together
MaxInFlight == 2
\* browser window: size of the map element in CSS pixels
ScreenW == 1100
ScreenH == 700

(***************************************************************************)
(* Inputs.                                                                 *)
(***************************************************************************)
\* the scales offered by both selects (EXPORT_SCALES and MAP_SCALES)
Scales == {500, 1000}
\* shapes the user can draw: id = `${type}_${Date.now()}`
DrawnIds == {"Rectangle_1"}
\* files the user can import: id = `layer_${Date.now()}`
LayerIds == {"layer_1"}
\* points entered in the Go-To-XY panel: id = `pt_${Date.now()}`
PointIds == {"pt_1", "pt_2"}
\* features read from an imported file
KmlIds == {"kml_1"}

\* extent [minX, minY, maxX, maxY] of each geometry, EPSG:3857 metres
GeomExtent(id) ==
    CASE id = "Rectangle_1" -> <<-845000, 3970000, -840000, 3975000>>
      [] id = "kml_1"       -> <<-900000, 3500000, -899000, 3500600>>
      [] id = "pt_1"        -> <<-850000, 3900000, -850000, 3900000>>
      [] id = "pt_2"        -> <<-760000, 4030000, -760000, 4030000>>
      [] id = "Rectangle_2" -> <<-845393, 3971123, -844393, 3972123>>
      [] id = "Polygon_3"   -> <<-891000, 3970000, -889000, 3972000>>
      [] id = "Polygon_4"   -> <<1000000, -2001000, 1004000, -1999000>>
      [] id = "Point_5"     -> <<-843000, 3976000, -843000, 3976000>>
      [] id = "Line_6"      -> <<-846000, 3969000, -841000, 3969000>>
      [] id = "Moi"         -> <<-843500, 3972500, -843500, 3972500>>

IsPolygon(id) == id \in {"Rectangle_1", "kml_1", "Rectangle_2", "Polygon_3", "Polygon_4"}

IsLineString(id) == id \in {"Line_6"}

(***************************************************************************)
(* geoService: projections and scale/resolution conversion.                *)
(***************************************************************************)
\* latitude (milli-degrees) of the Mercator ordinates 0, 100 km, 200 km, ...
LatKnots ==
    << 0, 898, 1796, 2694, 3591, 4487, 5382, 6276, 7168, 8058, 8947, 9833,
       10717, 11598, 12477, 13352, 14225, 15094, 15959, 16821, 17679, 18533,
       19382, 20227, 21068, 21904, 22735, 23561, 24382, 25197, 26007, 26812,
       27611, 28404, 29191, 29972, 30747, 31516, 32279, 33035, 33785, 34529,
       35265, 35995, 36719, 37436, 38145, 38849, 39545, 40234, 40916, 41592 >>

\* 1000 * cos(d degrees), d = 0 .. 90
CosTable ==
    << 1000, 1000, 999, 999, 998, 996, 995, 993, 990, 988, 985, 982, 978, 974,
       970, 966, 961, 956, 951, 946, 940, 934, 927, 921, 914, 906, 899, 891,
       883, 875, 866, 857, 848, 839, 829, 819, 809, 799, 788, 777, 766, 755,
       743, 731, 719, 707, 695, 682, 669, 656, 643, 629, 616, 602, 588, 574,
       559, 545, 530, 515, 500, 485, 469, 454, 438, 423, 407, 391, 375, 358,
       342, 326, 309, 292, 276, 259, 242, 225, 208, 191, 174, 156, 139, 122,
       105, 87, 70, 52, 35, 17, 0 >>

Abs(n) == IF n < 0 THEN -n ELSE n

\* proj4('EPSG:3857','EPSG:4326'): latitude of a Mercator ordinate
LatMilli(y) ==
    LET a  == Abs(y)
        k  == a \div 100000
        r  == a % 100000
        lo == LatKnots[k + 1]
        hi == LatKnots[k + 2]
        v  == lo + ((hi - lo) * r) \div 100000
    IN  IF y < 0 THEN -v ELSE v

\* proj4('EPSG:3857','EPSG:4326'): longitude of a Mercator abscissa
LonMilli(x) == (x * 1000) \div 111319

toLonLat(c) == <<LonMilli(c[1]), LatMilli(c[2])>>

convertToWGS84(x, y) == [lng |-> LonMilli(x), lat |-> LatMilli(y)]

\* 1000 * Math.cos(lat * Math.PI / 180), lat in milli-degrees up to 89.97: from
\* the table below 89.5 degrees, (90 - |lat|) * pi / 180 from there on
CosMilli(lat) ==
    IF Abs(lat) >= 89500
    THEN ((90000 - Abs(lat)) * 17453 + 500000) \div 1000000
    ELSE CosTable[((Abs(lat) + 500) \div 1000) + 1]

\* (scaleValue * 0.000264583333) / cos(lat), in 1/100000 m per pixel
getResolutionFromScale(scaleValue, lat) ==
    (scaleValue * 264583) \div (10 * CosMilli(lat))

calculateScaleIgnoresLatitude(resolution, lat) ==
    ToString((resolution * 10 + 132) \div 265)

\* (resolution * cos(lat) / 0.000264583333).toFixed(0): the resolution is in
\* 1/100000 m per pixel, the result the decimal string of the nearest integer
calculateScale(resolution, lat) ==
    ToString((resolution * CosMilli(lat) * 10 + 132291) \div 264583)

\* Math.ceil(a / b) for a >= 0, b > 0
Ceil(a, b) == (a + b - 1) \div b

Max(a, b) == IF a > b THEN a ELSE b

ExtentCenter(e) == <<(e[1] + e[3]) \div 2, (e[2] + e[4]) \div 2>>


(***************************************************************************)
(* Program constants.                                                      *)
(***************************************************************************)
\* resolution of the initial view (zoom 6)
InitialResolution == 244598491
\* resolution of maxZoom 22, the smallest the view can fit to
MinResolution == 3732
\* padding (left + right, top + bottom) of view.fit in calculateExtentAndNotify
FitPadding == 100

\* resolution of zoom 16, where addManualPoint and flyToLocation take the view
Zoom16Resolution == 238866
\* view.animate({zoom: 18}) of locateUser, 1/100000 m per pixel
Zoom18Resolution == 59716

InitialCenter == <<-844893, 3971623>>

(***************************************************************************)
(* State.                                                                  *)
(***************************************************************************)
VARIABLES
    \* ---- App (useState) ----
    step,             \* 'IDLE' | 'SELECTED' | 'PROCESSING' | 'DONE'
    exportData,       \* <<>> (null) or <<SelectionData>>
    exportResult,     \* <<>> (null) or <<[name, coords]>>
    zipBlob,          \* <<>> (null) or <<archive>>
    fileName,         \* <<>> ("") or <<[base, ext]>>
    selectedScale,
    selectedLayerId,
    layers,           \* ids of the imported layers (LayerInfo)
    manualFeatures,   \* ids reported by onManualFeaturesChange
    locationName,
    searchQuery,
    searchResults,    \* <<>> or <<query whose results are listed>>
    \* ---- MapComponent (refs and OpenLayers objects) ----
    source,           \* sourceRef: drawn shapes, in insertion order
    pointsSource,     \* pointsSourceRef
    kmlSource,        \* kmlSourceRef: set of [id, layerId]
    selection,        \* features held by the Select interaction
    mapSize,          \* map.getSize()
    viewResolution,   \* view.getResolution()
    viewCenter,       \* view.getCenter()
    layersVisible,    \* visibility of the VectorLayers
    popupContent,     \* <<>> (null) or <<[label, lat, lon, z]>>, z = <<>> for '...'
    overlayPosition,  \* overlayRef position: <<>> (hidden) or <<coordinate>>
    \* ---- asynchronous work in flight ----
    exports,          \* startClipping invocations, oldest first
    geoPending,       \* fetchLocationName requests not yet answered
    searchPending,    \* searchPlaces requests not yet answered
    elevPending,      \* fetchElevation requests not yet answered
    loadPending,      \* files being read by loadKML/loadShapefile/...
    notifyPending,    \* setTimeout(notifyManualFeatures, 100) armed
    \* ---- observations ----
    alert,            \* message shown by alert() in the last step, or "none"
    setSizeCalls,     \* export sizes passed to map.setSize in the last step
    captured,         \* canvases composited (drawImage) in the last step
    caught,           \* errors startClipping's catch block logged in the last step
    downloaded,       \* <<>> or <<name>>: the file the last step handed to the browser
    \* ---- evaluation of the pure functions ----
    input,            \* <<>> or <<arguments>>: the arguments a function is applied to
    output            \* <<>> or <<[fn, value]>>: the function applied and what it returned

appVars == <<step, exportData, exportResult, zipBlob, fileName, selectedScale,
             selectedLayerId, layers, manualFeatures, locationName>>
searchVars == <<searchQuery, searchResults, searchPending>>
featureVars == <<source, pointsSource, kmlSource, selection>>
viewVars == <<mapSize, viewResolution, viewCenter, layersVisible>>
popupVars == <<popupContent, overlayPosition, elevPending>>
asyncVars == <<exports, geoPending, loadPending, notifyPending>>
obsVars == <<alert, setSizeCalls, captured, caught, downloaded>>
evalVars == <<input, output>>

vars == <<appVars, searchVars, featureVars, viewVars, popupVars, asyncVars, obsVars,
          evalVars>>

DefaultLocation == "location"

\* the application as mounted: every useState and useRef at its initial value
Mounted ==
    /\ step = "IDLE"
    /\ exportData = <<>>
    /\ exportResult = <<>>
    /\ zipBlob = <<>>
    /\ fileName = <<>>
    /\ selectedScale = 1000
    /\ selectedLayerId = "manual"
    /\ layers = {}
    /\ manualFeatures = {}
    /\ locationName = DefaultLocation
    /\ searchQuery = ""
    /\ searchResults = <<>>
    /\ source = <<>>
    /\ pointsSource = {}
    /\ kmlSource = {}
    /\ selection = <<>>
    /\ mapSize = <<ScreenW, ScreenH>>
    /\ viewResolution = InitialResolution
    /\ viewCenter = InitialCenter
    /\ layersVisible = TRUE
    /\ popupContent = <<>>
    /\ overlayPosition = <<>>
    /\ exports = <<>>
    /\ geoPending = {}
    /\ searchPending = {}
    /\ elevPending = {}
    /\ loadPending = {}
    /\ notifyPending = FALSE
    /\ alert = "none"
    /\ setSizeCalls = <<>>
    /\ captured = {}
    /\ caught = <<>>
    /\ downloaded = <<>>

Init ==
    /\ Mounted
    /\ input = <<>>
    /\ output = <<>>

\* what a step shows: the alert() it raised, the sizes it passed to setSize, the
\* canvases it composited, the errors its catch blocks logged
Observe(message, sizes, canvases, errors) ==
    /\ alert' = message
    /\ setSizeCalls' = sizes
    /\ captured' = canvases
    /\ caught' = errors
    /\ downloaded' = <<>>

Quiet == Observe("none", <<>>, {}, <<>>)


(***************************************************************************)
(* MapComponent helpers.                                                   *)
(***************************************************************************)
Range(q) == {q[i] : i \in 1..Len(q)}

\* the union bounding box of a non-empty set of features
UnionExtent(S) ==
    LET E == {GeomExtent(f) : f \in S}
    IN  << CHOOSE v \in {e[1] : e \in E} : \A e \in E : v <= e[1],
           CHOOSE v \in {e[2] : e \in E} : \A e \in E : v <= e[2],
           CHOOSE v \in {e[3] : e \in E} : \A e \in E : v >= e[3],
           CHOOSE v \in {e[4] : e \in E} : \A e \in E : v >= e[4] >>

\* kmlSourceRef.current.getFeatures().filter(f => f.get('layerId') === layerId)
KmlFeatures(layerId) == {f.id : f \in {g \in kmlSource : g.layerId = layerId}}

\* the features an export of layerId covers (getMapCanvas, first three lines)
TargetFeatures(layerId) ==
    LET t == IF layerId = "manual" THEN Range(source) ELSE KmlFeatures(layerId)
    IN  IF t = {} /\ layerId # "manual"
        THEN IF layerId \in Range(source) \cup pointsSource THEN {layerId} ELSE {}
        ELSE t

\* view.fit(extent, { padding: [50, 50, 50, 50] }): the resolution that shows
\* the whole extent inside the padded map
FitResolution(e, size) ==
    Max(MinResolution,
        Max(Ceil((e[3] - e[1]) * 100000, Max(1, size[1] - FitPadding)),
            Ceil((e[4] - e[2]) * 100000, Max(1, size[2] - FitPadding))))

\* the SelectionData calculateExtentAndNotify hands to onSelectionComplete
SelectionOf(first, sourceExtent, featureId) ==
    LET c   == ExtentCenter(sourceExtent)
        wgs == convertToWGS84(c[1], c[2])
    IN  [lat |-> wgs.lat, lng |-> wgs.lng, bounds |-> sourceExtent,
         area |-> IsPolygon(first), perimeter |-> IsPolygon(first) \/ IsLineString(first),
         featureId |-> featureId]

\* the SelectionData of the Select interaction's 'select' handler
ClickSelectionOf(f) ==
    LET e   == GeomExtent(f)
        wgs == toLonLat(<<e[1], e[2]>>)
    IN  [lat |-> wgs[2], lng |-> wgs[1], bounds |-> e,
         area |-> FALSE, perimeter |-> FALSE, featureId |-> f]

\* the name Nominatim returns for a position
PlaceAt(lat, lng) == IF lat < 32000 THEN "taroudant" ELSE "casablanca"

\* useEffect([exportData]): a new selection starts a reverse-geocoding lookup;
\* a lookup in flight is identified by the name Nominatim will answer with
GeoRequest(data) == PlaceAt(data.lat, data.lng)

(***************************************************************************)
(* Drawing, selecting and importing.                                       *)
(***************************************************************************)
\* toggleTool('Polygon' | 'Rectangle' | 'Line'): a drawing tool is switched on
toggleTool ==
    /\ selectedLayerId' = "manual"
    /\ Quiet
    /\ UNCHANGED <<step, exportData, exportResult, zipBlob, fileName, selectedScale,
                   layers, manualFeatures, locationName>>
    /\ UNCHANGED <<searchVars, featureVars, viewVars, popupVars, asyncVars>>
    /\ UNCHANGED evalVars

\* draw.on('drawend') for a shape that is not a point
DrawEnd(id) ==
    /\ id \notin Range(source)
    /\ source' = Append(source, id)
    /\ notifyPending' = TRUE
    /\ LET data == SelectionOf(id, GeomExtent(id), id)
       IN  /\ viewCenter' = ExtentCenter(GeomExtent(id))
           /\ viewResolution' = FitResolution(GeomExtent(id), mapSize)
           /\ exportData' = <<data>>
           /\ step' = "SELECTED"
           /\ selectedLayerId' = id
           /\ geoPending' = geoPending \cup {GeoRequest(data)}
    /\ Quiet
    /\ UNCHANGED <<exportResult, zipBlob, fileName, selectedScale, layers,
                   manualFeatures, locationName>>
    /\ UNCHANGED <<searchVars, pointsSource, kmlSource, selection, mapSize,
                   layersVisible, popupVars, exports, loadPending>>
    /\ UNCHANGED evalVars

\* setTimeout(notifyManualFeatures, 100) fires
NotifyTimeout ==
    /\ notifyPending
    /\ notifyPending' = FALSE
    /\ manualFeatures' = Range(source) \cup pointsSource
    /\ Quiet
    /\ UNCHANGED <<step, exportData, exportResult, zipBlob, fileName, selectedScale,
                   selectedLayerId, layers, locationName>>
    /\ UNCHANGED <<searchVars, featureVars, viewVars, popupVars, exports,
                   geoPending, loadPending>>
    /\ UNCHANGED evalVars

\* undo: the shape drawn last is removed
undo ==
    /\ source' = IF Len(source) > 0 THEN SubSeq(source, 1, Len(source) - 1) ELSE source
    /\ manualFeatures' = Range(source') \cup pointsSource
    /\ Quiet
    /\ UNCHANGED <<step, exportData, exportResult, zipBlob, fileName, selectedScale,
                   selectedLayerId, layers, locationName>>
    /\ UNCHANGED <<searchVars, pointsSource, kmlSource, selection, viewVars,
                   popupVars, asyncVars>>
    /\ UNCHANGED evalVars

\* select.on('select') with a shape under the pointer (Edit tool)
SelectClick(f) ==
    /\ f \in Range(source) \cup {g.id : g \in kmlSource}
    /\ selection' = <<f>>
    /\ LET data == ClickSelectionOf(f)
       IN  /\ exportData' = <<data>>
           /\ step' = "SELECTED"
           /\ selectedLayerId' = f
           /\ geoPending' = geoPending \cup {GeoRequest(data)}
    /\ Quiet
    /\ UNCHANGED <<exportResult, zipBlob, fileName, selectedScale, layers,
                   manualFeatures, locationName>>
    /\ overlayPosition' = <<>>
    /\ UNCHANGED <<searchVars, source, pointsSource, kmlSource, viewVars,
                   popupContent, elevPending, exports, loadPending, notifyPending>>
    /\ UNCHANGED evalVars

\* handleFileUpload for KML, SHP, DXF or GeoJSON: the layer is listed and the
\* file starts loading
handleFileUpload(layerId) ==
    /\ layerId \notin layers
    /\ layerId \notin loadPending
    /\ layers' = layers \cup {layerId}
    /\ selectedLayerId' = layerId
    /\ loadPending' = loadPending \cup {layerId}
    /\ Quiet
    /\ UNCHANGED <<step, exportData, exportResult, zipBlob, fileName, selectedScale,
                   manualFeatures, locationName>>
    /\ UNCHANGED <<searchVars, featureVars, viewVars, popupVars, exports,
                   geoPending, notifyPending>>
    /\ UNCHANGED evalVars

\* the FileReader's onload of loadKML / loadShapefile / loadDXF / loadGeoJSON:
\* parsed = the features read; the parser throws when the file is malformed
FileLoaded(layerId, parsed, throws) ==
    /\ layerId \in loadPending
    /\ loadPending' = loadPending \ {layerId}
    /\ IF throws \/ parsed = {}
       THEN /\ kmlSource' = kmlSource
            /\ UNCHANGED <<exportData, step, geoPending, viewCenter, viewResolution>>
       ELSE LET first  == CHOOSE f \in parsed : TRUE
                extent == UnionExtent(parsed)
                data   == SelectionOf(first, extent, "")
            IN  /\ kmlSource' = kmlSource \cup {[id |-> f, layerId |-> layerId] : f \in parsed}
                /\ viewCenter' = ExtentCenter(extent)
                /\ viewResolution' = FitResolution(extent, mapSize)
                /\ exportData' = <<data>>
                /\ step' = "SELECTED"
                /\ geoPending' = geoPending \cup {GeoRequest(data)}
    /\ Quiet
    /\ UNCHANGED <<exportResult, zipBlob, fileName, selectedScale, selectedLayerId,
                   layers, manualFeatures, locationName>>
    /\ UNCHANGED <<searchVars, source, pointsSource, selection, mapSize,
                   layersVisible, popupVars, exports, notifyPending>>
    /\ UNCHANGED evalVars

\* handleLayerSelect: the Source select or a row of the layer list
handleLayerSelect(layerId) ==
    /\ layerId \in {"manual"} \cup manualFeatures \cup layers
    /\ LET isManualFeature == layerId \in Range(source) \cup pointsSource
           targets  == IF layerId = "manual" THEN Range(source) ELSE KmlFeatures(layerId)
           notified == isManualFeature \/ targets # {}
           picked   == IF isManualFeature THEN {layerId} ELSE targets
           first    == IF isManualFeature THEN layerId
                       ELSE IF layerId = "manual" THEN source[1]
                       ELSE CHOOSE f \in targets : TRUE
           extent   == UnionExtent(picked)
           data     == SelectionOf(first, extent, IF isManualFeature THEN layerId ELSE "")
       IN  /\ selectedLayerId' = layerId
           /\ selection' = IF isManualFeature THEN <<layerId>> ELSE selection
           /\ IF notified
              THEN /\ viewCenter' = ExtentCenter(extent)
                   /\ viewResolution' = FitResolution(extent, mapSize)
                   /\ exportData' = <<data>>
                   /\ geoPending' = geoPending \cup {GeoRequest(data)}
              ELSE UNCHANGED <<viewCenter, viewResolution, exportData, geoPending>>
           /\ step' = IF layerId \in manualFeatures THEN "SELECTED"
                      ELSE IF /\ layerId = "manual"
                              /\ (exportData = <<>> \/ ~exportData[1].area)
                              /\ manualFeatures = {}
                           THEN "IDLE"
                      ELSE IF notified THEN "SELECTED" ELSE step
    /\ Quiet
    /\ UNCHANGED <<exportResult, zipBlob, fileName, selectedScale, layers,
                   manualFeatures, locationName>>
    /\ UNCHANGED <<searchVars, source, pointsSource, kmlSource, mapSize,
                   layersVisible, popupVars, exports, loadPending, notifyPending>>
    /\ UNCHANGED evalVars


(***************************************************************************)
(* The export: startClipping and getMapCanvas.                             *)
(***************************************************************************)
ErrMsg == "Erreur lors du traitement"

\* what the closure of startClipping captures when it is invoked
NewExport(currentScale) ==
    [stage |-> "timer", scale |-> currentScale, layerId |-> selectedLayerId,
     lat |-> exportData[1].lat, lng |-> exportData[1].lng, loc |-> locationName,
     w |-> 0, h |-> 0, extent |-> <<0, 0, 0, 0>>,
     origSize |-> <<0, 0>>, origRes |-> 0, origCenter |-> <<0, 0>>]

\* the GENERER button is rendered
GenerateShown ==
    \/ step = "SELECTED"
    \/ (selectedLayerId # "manual" /\ exportData # <<>>)
    \/ (selectedLayerId = "manual" /\ manualFeatures # {})

\* startClipping() from the GENERER button
startClipping ==
    /\ GenerateShown
    /\ exportData # <<>>
    /\ Len(exports) < MaxInFlight
    /\ step' = "PROCESSING"
    /\ exports' = Append(exports, NewExport(selectedScale))
    /\ Quiet
    /\ UNCHANGED <<exportData, exportResult, zipBlob, fileName, selectedScale,
                   selectedLayerId, layers, manualFeatures, locationName>>
    /\ UNCHANGED <<searchVars, featureVars, viewVars, popupVars, geoPending,
                   loadPending, notifyPending>>
    /\ UNCHANGED evalVars

\* handleScaleChange from either scale select: setMapScale(newScale, true), then
\* startClipping(newScale) when a selection exists
handleScaleChange(newScale) ==
    /\ newScale # selectedScale
    /\ exportData # <<>> => Len(exports) < MaxInFlight
    /\ selectedScale' = newScale
    /\ LET center == IF selection # <<>>
                     THEN ExtentCenter(GeomExtent(selection[1]))
                     ELSE viewCenter
       IN  /\ viewCenter' = center
           /\ viewResolution' = getResolutionFromScale(newScale, toLonLat(center)[2])
    /\ IF exportData # <<>>
       THEN /\ step' = "PROCESSING"
            /\ exports' = Append(exports, NewExport(newScale))
       ELSE UNCHANGED <<step, exports>>
    /\ Quiet
    /\ UNCHANGED <<exportData, exportResult, zipBlob, fileName, selectedLayerId,
                   layers, manualFeatures, locationName>>
    /\ UNCHANGED <<searchVars, featureVars, mapSize, layersVisible, popupVars,
                   geoPending, loadPending, notifyPending>>
    /\ UNCHANGED evalVars

InStage(stage) == {i \in 1..Len(exports) : exports[i].stage = stage}

FirstInStage(stage) == CHOOSE i \in InStage(stage) : \A j \in InStage(stage) : i <= j

RemoveAt(q, i) == SubSeq(q, 1, i - 1) \o SubSeq(q, i + 1, Len(q))

ReturnNullLeavesStep(i) ==
    /\ exports' = RemoveAt(exports, i)
    /\ step' = step
    /\ Observe(ErrMsg, <<>>, {}, <<"Empty Canvas">>)
    /\ UNCHANGED viewVars

\* getMapCanvas: `if (targetFeatures.length === 0) return null`, which the caller
\* turns into `throw new Error("Empty Canvas")` and its catch block
ReturnNull(i) ==
    /\ exports' = RemoveAt(exports, i)
    /\ step' = "IDLE"
    /\ Observe(ErrMsg, <<>>, {}, <<"Empty Canvas">>)
    /\ UNCHANGED viewVars

\* the resolution getMapCanvas renders an extent at
ExportResolution(extent, scale) ==
    getResolutionFromScale(scale, toLonLat(ExtentCenter(extent))[2])

ExportSizeRoundedDown(extent, scale) ==
    << ((extent[3] - extent[1]) * 100000) \div ExportResolution(extent, scale),
       ((extent[4] - extent[2]) * 100000) \div ExportResolution(extent, scale) >>

\* [width, height] = Math.ceil(extent span / res)
ExportSize(extent, scale) ==
    << Ceil((extent[3] - extent[1]) * 100000, ExportResolution(extent, scale)),
       Ceil((extent[4] - extent[2]) * 100000, ExportResolution(extent, scale)) >>

\* getMapCanvas from the extent computation to `once('rendercomplete', ...)`:
\* the view state is saved, the vector layers hidden, the map resized
ResizeAndWait(i, tf, canvases) ==
    LET extent == UnionExtent(tf)
        size   == ExportSize(extent, exports[i].scale)
    IN  /\ exports' = [exports EXCEPT ![i] =
               [exports[i] EXCEPT !.stage = "rendering", !.w = size[1], !.h = size[2],
                                  !.extent = extent, !.origSize = mapSize,
                                  !.origRes = viewResolution,
                                  !.origCenter = viewCenter]]
        /\ layersVisible' = FALSE
        /\ mapSize' = size
        /\ viewResolution' = ExportResolution(extent, exports[i].scale)
        /\ viewCenter' = ExtentCenter(extent)
        /\ UNCHANGED step
        /\ Observe("none", <<size>>, canvases, <<>>)

getMapCanvasIgnoresEmpty ==
    /\ InStage("timer") # {}
    /\ LET i  == FirstInStage("timer")
           tf == TargetFeatures(exports[i].layerId)
       IN  ResizeAndWait(i, IF tf = {} THEN DrawnIds ELSE tf, {})
    /\ UNCHANGED <<exportData, exportResult, zipBlob, fileName, selectedScale,
                   selectedLayerId, layers, manualFeatures, locationName>>
    /\ UNCHANGED <<searchVars, featureVars, popupVars, geoPending, loadPending,
                   notifyPending>>
    /\ UNCHANGED evalVars

getMapCanvasCapturesAtOnce ==
    /\ InStage("timer") # {}
    /\ LET i  == FirstInStage("timer")
           tf == TargetFeatures(exports[i].layerId)
       IN  IF tf = {}
           THEN ReturnNull(i)
           ELSE ResizeAndWait(i, tf, {ExportSize(UnionExtent(tf), exports[i].scale)})
    /\ UNCHANGED <<exportData, exportResult, zipBlob, fileName, selectedScale,
                   selectedLayerId, layers, manualFeatures, locationName>>
    /\ UNCHANGED <<searchVars, featureVars, popupVars, geoPending, loadPending,
                   notifyPending>>
    /\ UNCHANGED evalVars

\* the setTimeout callback of the oldest waiting startClipping: it calls
\* getMapCanvas, which either returns null (no target feature) or resizes the map
\* and waits for 'rendercomplete'
getMapCanvas ==
    /\ InStage("timer") # {}
    /\ LET i  == FirstInStage("timer")
           tf == TargetFeatures(exports[i].layerId)
       IN  IF tf = {} THEN ReturnNull(i) ELSE ResizeAndWait(i, tf, {})
    /\ UNCHANGED <<exportData, exportResult, zipBlob, fileName, selectedScale,
                   selectedLayerId, layers, manualFeatures, locationName>>
    /\ UNCHANGED <<searchVars, featureVars, popupVars, geoPending, loadPending,
                   notifyPending>>
    /\ UNCHANGED evalVars

\* how the 'rendercomplete' listener of one export and the code that awaits it end:
\* "captureFails" is getContext('2d') returning null or an exception inside the
\* listener (both `resolve(null)`), "encodeThrows" an exception of getImageData or
\* UTIF.encodeImage in startClipping
CaptureOutcomes == {"ok", "captureFails", "encodeThrows"}

\* the listener reached the lines that restore the map
Restores(o) == o # "captureFails"

\* what startClipping's catch block receives: getMapCanvas resolved null
\* (`throw new Error("Empty Canvas")`), or getImageData / UTIF.encodeImage threw
ErrorOf(o) ==
    CASE o = "ok"           -> "none"
      [] o = "encodeThrows" -> "EncodeError"
      [] OTHER              -> "Empty Canvas"

IsError(m) == m # "none"

Alive(e) == e.stage # "failed"

\* the map signals 'rendercomplete': every listener registered by getMapCanvas runs
\* (capture, restore, resolve), then each awaiting startClipping reads the pixels and
\* encodes the TIFF, up to its `await import('proj4')`
rendercomplete(outcome) ==
    /\ InStage("rendering") # {}
    /\ LET R         == InStage("rendering")
           restoring == {i \in R : Restores(outcome[i])}
           failed    == {i \in R : outcome[i] # "ok"}
           last      == CHOOSE i \in restoring : \A j \in restoring : j <= i
           stepped   == [i \in 1..Len(exports) |->
                           IF i \in R
                           THEN [exports[i] EXCEPT
                                    !.stage = IF i \in failed THEN "failed" ELSE "packaging",
                                    !.origSize = <<0, 0>>, !.origRes = 0,
                                    !.origCenter = <<0, 0>>]
                           ELSE exports[i]]
       IN  /\ exports' = SelectSeq(stepped, Alive)
           /\ IF restoring = {}
              THEN UNCHANGED viewVars
              ELSE /\ layersVisible' = TRUE
                   /\ mapSize' = exports[last].origSize
                   /\ viewResolution' = exports[last].origRes
                   /\ viewCenter' = exports[last].origCenter
           /\ step' = IF failed # {} THEN "IDLE" ELSE step
           /\ Observe(IF failed # {} THEN ErrMsg ELSE "none", <<>>,
                      {<<exports[i].w, exports[i].h>> : i \in restoring},
                      SelectSeq([i \in 1..Len(exports) |->
                                    IF i \in R THEN ErrorOf(outcome[i]) ELSE "none"],
                                IsError))
    /\ UNCHANGED <<exportData, exportResult, zipBlob, fileName, selectedScale,
                   selectedLayerId, layers, manualFeatures, locationName>>
    /\ UNCHANGED <<searchVars, featureVars, popupVars, geoPending, loadPending,
                   notifyPending>>
    /\ UNCHANGED evalVars

\* `${locationName}_${scaleStr}_${coordStr}_${dateStr}_topoma`
BaseName(e) == [loc |-> e.loc, scale |-> e.scale, lat |-> e.lat, lng |-> e.lng]

zipGeneratedStoresBeforeThrow(i, throws) ==
    /\ i \in InStage("packaging")
    /\ exports' = RemoveAt(exports, i)
    /\ zipBlob' = <<BaseName(exports[i])>>
    /\ fileName' = <<[base |-> BaseName(exports[i]), ext |-> "zip"]>>
    /\ exportResult' = <<[base |-> BaseName(exports[i]), ext |-> "tif"]>>
    /\ IF throws
       THEN /\ step' = "IDLE"
            /\ Observe(ErrMsg, <<>>, {}, <<"ArchiveError">>)
       ELSE /\ step' = "DONE"
            /\ Quiet
    /\ UNCHANGED <<exportData, selectedScale, selectedLayerId, layers,
                   manualFeatures, locationName>>
    /\ UNCHANGED <<searchVars, featureVars, viewVars, popupVars, geoPending,
                   loadPending, notifyPending>>
    /\ UNCHANGED evalVars

\* the rest of startClipping's try block for export i, from `await import('proj4')`
\* to `await zip.generateAsync`; between the two awaits only locals of the closure
\* are computed.  Either the artifact is stored and the step becomes DONE, or one
\* of the promises rejects and the catch block runs
zipGenerated(i, throws) ==
    /\ i \in InStage("packaging")
    /\ exports' = RemoveAt(exports, i)
    /\ IF throws
       THEN /\ step' = "IDLE"
            /\ Observe(ErrMsg, <<>>, {}, <<"ArchiveError">>)
            /\ UNCHANGED <<zipBlob, fileName, exportResult>>
       ELSE /\ zipBlob' = <<BaseName(exports[i])>>
            /\ fileName' = <<[base |-> BaseName(exports[i]), ext |-> "zip"]>>
            /\ exportResult' = <<[base |-> BaseName(exports[i]), ext |-> "tif"]>>
            /\ step' = "DONE"
            /\ Quiet
    /\ UNCHANGED <<exportData, selectedScale, selectedLayerId, layers,
                   manualFeatures, locationName>>
    /\ UNCHANGED <<searchVars, featureVars, viewVars, popupVars, geoPending,
                   loadPending, notifyPending>>
    /\ UNCHANGED evalVars

downloadFileRegenerates ==
    /\ step = "DONE" /\ exportResult # <<>>
    /\ Len(exports) < MaxInFlight
    /\ step' = "PROCESSING"
    /\ exports' = Append(exports, NewExport(selectedScale))
    /\ alert' = "none" /\ setSizeCalls' = <<>> /\ captured' = {} /\ caught' = <<>>
    /\ downloaded' = fileName
    /\ UNCHANGED <<exportData, exportResult, zipBlob, fileName, selectedScale,
                   selectedLayerId, layers, manualFeatures, locationName>>
    /\ UNCHANGED <<searchVars, featureVars, viewVars, popupVars, geoPending,
                   loadPending, notifyPending>>
    /\ UNCHANGED evalVars

\* downloadFile from the Telecharger ZIP button (rendered when step is DONE and
\* exportResult is set): `if (!zipBlob) return`, else the archive is handed to
\* the browser under fileName and setStep('DONE')
downloadFile ==
    /\ step = "DONE" /\ exportResult # <<>>
    /\ step' = IF zipBlob = <<>> THEN step ELSE "DONE"
    /\ alert' = "none" /\ setSizeCalls' = <<>> /\ captured' = {} /\ caught' = <<>>
    /\ downloaded' = IF zipBlob = <<>> THEN <<>> ELSE fileName
    /\ UNCHANGED <<exportData, exportResult, zipBlob, fileName, selectedScale,
                   selectedLayerId, layers, manualFeatures, locationName>>
    /\ UNCHANGED <<searchVars, featureVars, viewVars, popupVars, asyncVars>>
    /\ UNCHANGED evalVars

\* resetAll without its setStep('IDLE')
resetAllKeepsStep ==
    /\ source' = <<>> /\ kmlSource' = {} /\ pointsSource' = {}
    /\ exportData' = <<>> /\ exportResult' = <<>> /\ step' = step
    /\ zipBlob' = <<>> /\ layers' = {} /\ manualFeatures' = {}
    /\ selectedLayerId' = "manual" /\ locationName' = DefaultLocation
    /\ searchQuery' = "" /\ searchResults' = <<>>
    /\ overlayPosition' = <<>>
    /\ Quiet
    /\ UNCHANGED <<fileName, selectedScale, searchPending, selection, viewVars,
                   popupContent, elevPending, asyncVars>>
    /\ UNCHANGED evalVars

\* resetAll from the eraser button: clearAll() on the map, then every setter
resetAll ==
    /\ source' = <<>> /\ kmlSource' = {} /\ pointsSource' = {}
    /\ exportData' = <<>> /\ exportResult' = <<>> /\ step' = "IDLE"
    /\ zipBlob' = <<>> /\ layers' = {} /\ manualFeatures' = {}
    /\ selectedLayerId' = "manual" /\ locationName' = DefaultLocation
    /\ searchQuery' = "" /\ searchResults' = <<>>
    /\ overlayPosition' = <<>>
    /\ Quiet
    /\ UNCHANGED <<fileName, selectedScale, searchPending, selection, viewVars,
                   popupContent, elevPending, asyncVars>>
    /\ UNCHANGED evalVars

\* the promise of fetchLocationName settles: .then(name => setLocationName(name))
geocodeResponse(req, ok) ==
    /\ req \in geoPending
    /\ geoPending' = geoPending \ {req}
    /\ locationName' = IF ok THEN req ELSE DefaultLocation
    /\ Quiet
    /\ UNCHANGED <<step, exportData, exportResult, zipBlob, fileName, selectedScale,
                   selectedLayerId, layers, manualFeatures>>
    /\ UNCHANGED <<searchVars, featureVars, viewVars, popupVars, exports,
                   loadPending, notifyPending>>
    /\ UNCHANGED evalVars

(***************************************************************************)
(* Place search (App) and point popups (MapComponent).                     *)
(***************************************************************************)
\* what the user can have in the search box
Queries == {"", "ca", "casa", "rabat", "agadir"}

\* where Nominatim places a query
PlaceCoord(q) ==
    CASE q = "casa"   -> <<-844893, 3971623>>
      [] q = "rabat"  -> <<-761600, 4032000>>
      [] q = "agadir" -> <<-1067000, 3561000>>

\* handleSearchInput: onChange of the search box
handleSearchInput(val) ==
    /\ val # searchQuery
    /\ searchQuery' = val
    /\ IF Len(val) > 2
       THEN /\ searchPending' = searchPending \cup {val}
            /\ UNCHANGED searchResults
       ELSE /\ searchResults' = <<>>
            /\ UNCHANGED searchPending
    /\ Quiet
    /\ UNCHANGED <<appVars, featureVars, viewVars, popupVars, asyncVars>>
    /\ UNCHANGED evalVars

\* `await searchPlaces(val)` settles: setSearchResults(results); a failed request
\* gives []
searchResponse(q, ok) ==
    /\ q \in searchPending
    /\ searchPending' = searchPending \ {q}
    /\ searchResults' = IF ok THEN <<q>> ELSE <<>>
    /\ Quiet
    /\ UNCHANGED <<searchQuery, appVars, featureVars, viewVars, popupVars, asyncVars>>
    /\ UNCHANGED evalVars

\* handleSelectSearchResult: a row of the result list is clicked
handleSelectSearchResult ==
    /\ searchResults # <<>>
    /\ viewCenter' = PlaceCoord(searchResults[1])
    /\ viewResolution' = Zoom16Resolution
    /\ searchResults' = <<>>
    /\ searchQuery' = ""
    /\ Quiet
    /\ UNCHANGED <<searchPending, appVars, featureVars, mapSize, layersVisible,
                   popupVars, asyncVars>>
    /\ UNCHANGED evalVars

\* what open-elevation answers for a point (metres)
Elevation(p) == IF p = "pt_1" THEN 57 ELSE 1230

PointCoord(p) == <<GeomExtent(p)[1], GeomExtent(p)[2]>>

\* showPointPopup up to its await: the popup is filled with z = '...' and moved
\* to the point, and the elevation is requested
showPointPopup(p) ==
    /\ popupContent' = <<[label |-> p, lat |-> toLonLat(PointCoord(p))[2],
                          lon |-> toLonLat(PointCoord(p))[1], z |-> <<>>]>>
    /\ overlayPosition' = <<PointCoord(p)>>
    /\ elevPending' = elevPending \cup {p}
    /\ UNCHANGED evalVars

\* handleManualAddPoint -> addManualPoint: a point entered in the Go-To-XY panel
addManualPoint(p) ==
    /\ p \notin pointsSource
    /\ pointsSource' = pointsSource \cup {p}
    /\ viewCenter' = PointCoord(p)
    /\ viewResolution' = Zoom16Resolution
    /\ showPointPopup(p)
    /\ manualFeatures' = Range(source) \cup pointsSource'
    /\ Quiet
    /\ UNCHANGED <<step, exportData, exportResult, zipBlob, fileName, selectedScale,
                   selectedLayerId, layers, locationName>>
    /\ UNCHANGED <<searchVars, source, kmlSource, selection, mapSize, layersVisible,
                   asyncVars>>
    /\ UNCHANGED evalVars

\* locateUser, the callback of getCurrentPosition: the point is added without an
\* identifier ("Moi" stands for that feature, whose getId() is undefined) and
\* the popup is shown
locateUser ==
    /\ "Moi" \notin pointsSource
    /\ pointsSource' = pointsSource \cup {"Moi"}
    /\ viewCenter' = PointCoord("Moi")
    /\ viewResolution' = Zoom18Resolution
    /\ showPointPopup("Moi")
    /\ Quiet
    /\ UNCHANGED appVars
    /\ UNCHANGED <<searchVars, source, kmlSource, selection, mapSize, layersVisible,
                   asyncVars>>
    /\ UNCHANGED evalVars

\* deleteSelectedFeature: the features of the Select interaction are removed from
\* the three sources, the selection is emptied, notifyManualFeatures()
deleteSelectedFeature ==
    /\ LET kept(f) == f \notin Range(selection)
       IN  /\ source' = SelectSeq(source, kept)
           /\ pointsSource' = {p \in pointsSource : kept(p)}
           /\ kmlSource' = {g \in kmlSource : kept(g.id)}
    /\ selection' = <<>>
    /\ manualFeatures' = Range(source') \cup pointsSource'
    /\ Quiet
    /\ UNCHANGED <<step, exportData, exportResult, zipBlob, fileName, selectedScale,
                   selectedLayerId, layers, locationName>>
    /\ UNCHANGED <<searchVars, viewVars, popupVars, asyncVars>>
    /\ UNCHANGED evalVars

\* map.on('click') over a point feature while no drawing tool is active
PointClick(p) ==
    /\ p \in pointsSource
    /\ showPointPopup(p)
    /\ Quiet
    /\ UNCHANGED <<appVars, searchVars, featureVars, viewVars, asyncVars>>
    /\ UNCHANGED evalVars

\* the close button of the popup, or a click on the empty map
closePopup ==
    /\ overlayPosition # <<>>
    /\ overlayPosition' = <<>>
    /\ Quiet
    /\ UNCHANGED <<popupContent, elevPending>>
    /\ UNCHANGED <<appVars, searchVars, featureVars, viewVars, asyncVars>>
    /\ UNCHANGED evalVars

\* `await fetchElevation` of showPointPopup settles for the request made for p:
\* setPopupContent(prev => prev && prev.type === 'POINT' ? {...prev, z} : prev);
\* a failed request gives 0
elevationResponse(p, ok) ==
    /\ p \in elevPending
    /\ elevPending' = elevPending \ {p}
    /\ popupContent' = IF popupContent # <<>>
                       THEN <<[popupContent[1] EXCEPT !.z = <<IF ok THEN Elevation(p) ELSE 0>>]>>
                       ELSE popupContent
    /\ Quiet
    /\ UNCHANGED overlayPosition
    /\ UNCHANGED <<appVars, searchVars, featureVars, viewVars, asyncVars>>
    /\ UNCHANGED evalVars

(***************************************************************************)
(* The files of the archive: startClipping from `await import('proj4')` to  *)
(* the base name.  The values are computed from what the closure holds:      *)
(* exportData, locationName, currentScale, the canvas and extent returned    *)
(* by getMapCanvas, and the clock.                                           *)
(***************************************************************************)
EXPORT_SCALES ==
    << [label |-> "10000 km", value |-> 1000000000],
       [label |-> "5000 km", value |-> 500000000],
       [label |-> "2000 km", value |-> 200000000],
       [label |-> "1000 km", value |-> 100000000],
       [label |-> "500 km", value |-> 50000000],
       [label |-> "200 km", value |-> 20000000],
       [label |-> "100 km", value |-> 10000000],
       [label |-> "50 km", value |-> 5000000],
       [label |-> "25 km", value |-> 2500000],
       [label |-> "20 km", value |-> 2000000],
       [label |-> "10 km", value |-> 1000000],
       [label |-> "5 km", value |-> 500000],
       [label |-> "2 km", value |-> 200000],
       [label |-> "1 km", value |-> 100000],
       [label |-> "500 m", value |-> 50000],
       [label |-> "250 m", value |-> 25000],
       [label |-> "200 m", value |-> 20000],
       [label |-> "100 m", value |-> 10000],
       [label |-> "50 m", value |-> 5000],
       [label |-> "20 m", value |-> 2000],
       [label |-> "10 m", value |-> 1000],
       [label |-> "5 m", value |-> 500] >>

MAP_SCALES ==
    << [label |-> "1:500", value |-> 500],
       [label |-> "1:1000", value |-> 1000],
       [label |-> "1:2000", value |-> 2000],
       [label |-> "1:2500", value |-> 2500],
       [label |-> "1:5000", value |-> 5000],
       [label |-> "1:10000", value |-> 10000],
       [label |-> "1:25000", value |-> 25000],
       [label |-> "1:50000", value |-> 50000],
       [label |-> "1:100000", value |-> 100000],
       [label |-> "1:250000", value |-> 250000] >>

\* Array.prototype.find: <<>> (undefined) or <<the first entry with that value>>
FindScale(list, v) ==
    LET hits == {i \in 1..Len(list) : list[i].value = v}
    IN  IF hits = {} THEN <<>>
        ELSE <<list[CHOOSE i \in hits : \A j \in hits : i <= j]>>

\* s.replace(/\s+/g, '')
RECURSIVE StripWhitespace(_)
StripWhitespace(s) ==
    IF Len(s) = 0 THEN ""
    ELSE LET c == SubSeq(s, 1, 1)
         IN  (IF c \in {" ", "\t", "\n"} THEN "" ELSE c)
                 \o StripWhitespace(SubSeq(s, 2, Len(s)))

\* s.padStart(n, '0')
RECURSIVE padStart(_, _)
padStart(s, n) == IF Len(s) >= n THEN s ELSE padStart("0" \o s, n)

\* s.slice(-2)
LastTwo(s) == IF Len(s) <= 2 THEN s ELSE SubSeq(s, Len(s) - 1, Len(s))

\* `${MM}.${YY}` of new Date(); month is getMonth() + 1
dateStr(date) == padStart(ToString(date.month), 2) \o "." \o LastTwo(ToString(date.year))

\* Math.floor(Math.abs(v)) of a value in milli-degrees
FloorAbsDegrees(v) == Abs(v) \div 1000

coordStrFloorsBeforeAbs(lat, lng) ==
    (IF lat >= 0 THEN "n" ELSE "s") \o ToString(Abs(lat \div 1000)) \o "_"
        \o (IF lng >= 0 THEN "e" ELSE "w")
        \o padStart(ToString(Abs(lng \div 1000)), 3)

\* n30_w010: lat and lng are parseFloat(exportData.lat / .lng), in milli-degrees
coordStr(lat, lng) ==
    (IF lat >= 0 THEN "n" ELSE "s") \o ToString(FloorAbsDegrees(lat)) \o "_"
        \o (IF lng >= 0 THEN "e" ELSE "w")
        \o padStart(ToString(FloorAbsDegrees(lng)), 3)

\* scaleObj ? scaleObj.label.replace(/\s+/g, '') : currentScale.toString()
scaleStr(currentScale) ==
    LET scaleObj == FindScale(EXPORT_SCALES, currentScale)
    IN  IF scaleObj # <<>> THEN StripWhitespace(scaleObj[1].label)
        ELSE ToString(currentScale)

baseName(loc, currentScale, lat, lng, date) ==
    loc \o "_" \o scaleStr(currentScale) \o "_" \o coordStr(lat, lng) \o "_"
        \o dateStr(date) \o "_topoma"

\* proj4lib('EPSG:3857', 'EPSG:4326', [x, y]) in micro-degrees: the longitude is
\* x / 111319.49, the latitude is interpolated between the knots
LonMicro(x) ==
    LET q  == x \div 111319
        a  == (x % 111319) * 10000
        d1 == a \div 111319
        d2 == ((a % 111319) * 100) \div 111319
    IN  q * 1000000 + d1 * 100 + d2

LatMicro(y) ==
    LET a  == Abs(y)
        k  == a \div 100000
        r  == a % 100000
        lo == LatKnots[k + 1]
        hi == LatKnots[k + 2]
        v  == lo * 1000 + ((hi - lo) * r) \div 100
    IN  IF y < 0 THEN -v ELSE v

proj4lib(c) == <<LonMicro(c[1]), LatMicro(c[2])>>

tfwBottomLeftOrigin(extent, canvas) ==
    LET minCorner    == proj4lib(<<extent[1], extent[2]>>)
        maxCorner    == proj4lib(<<extent[3], extent[4]>>)
        pixelWidthX  == ((maxCorner[1] - minCorner[1]) * 1000) \div canvas.width
        pixelHeightY == ((maxCorner[2] - minCorner[2]) * 1000) \div canvas.height
    IN  << pixelWidthX, 0, 0, pixelHeightY, minCorner[1], minCorner[2] >>

tfwInMetres(extent, canvas) ==
    << ((extent[3] - extent[1]) * 1000) \div canvas.width, 0, 0,
       -(((extent[4] - extent[2]) * 1000) \div canvas.height),
       extent[1], extent[4] >>

\* the lines of the .tfw: the pixel sizes in 1e-9 degrees per pixel, the origin in
\* micro-degrees (toFixed(14) keeps more digits than either unit)
tfw(extent, canvas) ==
    LET minCorner    == proj4lib(<<extent[1], extent[2]>>)
        maxCorner    == proj4lib(<<extent[3], extent[4]>>)
        pixelWidthX  == ((maxCorner[1] - minCorner[1]) * 1000) \div canvas.width
        pixelHeightY == ((maxCorner[2] - minCorner[2]) * 1000) \div canvas.height
    IN  << pixelWidthX, 0, 0, -pixelHeightY, minCorner[1], maxCorner[2] >>

\* ---- the values the archive is built from ----
\* the shapes whose export is packaged
ArchiveFeatures == {"Rectangle_1", "kml_1", "Rectangle_2", "Polygon_3", "Polygon_4"}
\* the selection came from drawing/importing (calculateExtentAndNotify) or from a
\* click on the shape (the Select interaction)
SelectionPaths == {"drawend", "select"}
ArchiveScales == {100000, 50000, 1000, 2500}
ArchiveLocations == {"rabat", DefaultLocation}
ArchiveDates == {[month |-> 2, year |-> 2026], [month |-> 11, year |-> 2026],
                 [month |-> 12, year |-> 2009]}
ArchiveCanvases == {[width |-> 100, height |-> 100], [width |-> 378, height |-> 189]}

ArchiveInputs ==
    [feature : ArchiveFeatures, path : SelectionPaths, currentScale : ArchiveScales,
     locationName : ArchiveLocations, date : ArchiveDates, canvas : ArchiveCanvases]

\* exportData as the selection path of the input set it
ExportDataOf(in) ==
    IF in.path = "select" THEN ClickSelectionOf(in.feature)
    ELSE SelectionOf(in.feature, GeomExtent(in.feature), in.feature)

\* startClipping, lines 407-435: the world file and the base name of the archive
packArchive ==
    /\ input # <<>>
    /\ output = <<>>
    /\ LET in == input[1]
           ed == ExportDataOf(in)
       IN  output' = <<[fn       |-> "startClipping",
                        tfw      |-> tfw(GeomExtent(in.feature), in.canvas),
                        baseName |-> baseName(in.locationName, in.currentScale,
                                              ed.lat, ed.lng, in.date)]>>
    /\ UNCHANGED <<appVars, searchVars, featureVars, viewVars, popupVars, asyncVars,
                   obsVars, input>>


(***************************************************************************)
(* Scale and resolution conversions applied to a scale denominator and a   *)
(* latitude.  Neither function has a throw statement or a check of its     *)
(* arguments: what it returns is the value of its arithmetic.              *)
(***************************************************************************)
MaxScaleValue == 5000

\* the values of the two scale selects within the bound, and the smallest integers
ScaleValues ==
    (1..12) \cup {EXPORT_SCALES[i].value : i \in 1..Len(EXPORT_SCALES)}
            \cup {MAP_SCALES[i].value : i \in 1..Len(MAP_SCALES)}

ScaleInputs == {v \in ScaleValues : v <= MaxScaleValue}

\* latitudes (milli-degrees) inside (-89.5, 89.5) and outside of it
InnerLatitudes == {-89499, -60250, -33573, 0, 499, 20000, 33573, 45500, 60000,
                   75000, 89000, 89499}
OuterLatitudes == {-89750, -89500, 89500, 89600, 89900}

ScaleArguments == [scaleValue : ScaleInputs, lat : InnerLatitudes \cup OuterLatitudes]

\* getResolutionFromScale(scaleValue, lat) returns
resolutionComputed ==
    /\ input # <<>>
    /\ output = <<>>
    /\ output' = <<[fn         |-> "getResolutionFromScale",
                    resolution |-> getResolutionFromScale(input[1].scaleValue,
                                                          input[1].lat),
                    error      |-> "none"]>>
    /\ UNCHANGED <<appVars, searchVars, featureVars, viewVars, popupVars, asyncVars,
                   obsVars, input>>

\* calculateScale(resolution, lat) returns, for the resolution computed before
scaleComputed ==
    /\ output # <<>>
    /\ output[1].fn = "getResolutionFromScale"
    /\ output' = <<[fn         |-> "calculateScale",
                    resolution |-> output[1].resolution,
                    scale      |-> calculateScale(output[1].resolution, input[1].lat),
                    error      |-> "none"]>>
    /\ UNCHANGED <<appVars, searchVars, featureVars, viewVars, popupVars, asyncVars,
                   obsVars, input>>

(***************************************************************************)
(* geoService.projectFromZone.  proj4 is a library: what it returns for a  *)
(* coordinate (a position, NaN components, or an exception) is an input.   *)
(* Positions are in milli-degrees.                                         *)
(***************************************************************************)
\* the Lambert zones of proj4.defs
ProjectedZones == {"EPSG:26191", "EPSG:26192", "EPSG:26194", "EPSG:26195"}

NaN == [nan |-> TRUE, v |-> 0]
Num(n) == [nan |-> FALSE, v |-> n]
isNaN(a) == a.nan
\* a >= n and a <= n of JavaScript: false when a is NaN
Geq(a, n) == ~a.nan /\ a.v >= n
Leq(a, n) == ~a.nan /\ a.v <= n

\* the outcomes of proj4(zoneCode, 'EPSG:4326', [x, y])
Proj4Outcomes ==
    {[kind |-> "throws", lng |-> NaN, lat |-> NaN]}
        \cup [kind : {"coords"},
              lng : {NaN} \cup {Num(n) : n \in {-19001, -19000, -5400, 1000, 1001}},
              lat : {NaN} \cup {Num(n) : n \in {19999, 20000, 33300, 38000, 38001}}]

projectFromZoneWithoutEnvelope(x, y, zoneCode, coords) ==
    IF zoneCode = "EPSG:4326"
    THEN [value  |-> IF Abs(y) <= 90000 /\ Abs(x) <= 180000 THEN <<Num(x), Num(y)>>
                     ELSE <<>>,
          thrown |-> FALSE]
    ELSE [value |-> <<coords.lng, coords.lat>>, thrown |-> coords.kind = "throws"]

\* projectFromZone(x, y, zoneCode), coords being what proj4 does with [x, y]:
\* value is <<>> for null or <<lng, lat>>; thrown tells whether an exception
\* leaves the function (the whole body is inside try/catch)
projectFromZone(x, y, zoneCode, coords) ==
    IF zoneCode = "EPSG:4326"
    THEN [value  |-> IF Abs(y) <= 90000 /\ Abs(x) <= 180000 THEN <<Num(x), Num(y)>>
                     ELSE <<>>,
          thrown |-> FALSE]
    ELSE IF coords.kind = "throws"
    THEN [value |-> <<>>, thrown |-> FALSE]
    ELSE LET lng == coords.lng
             lat == coords.lat
         IN  [value  |-> IF /\ Geq(lat, 20000) /\ Leq(lat, 38000)
                            /\ Geq(lng, -19000) /\ Leq(lng, 1000)
                            /\ ~isNaN(lng) /\ ~isNaN(lat)
                         THEN <<lng, lat>>
                         ELSE <<>>,
              thrown |-> FALSE]

\* arguments of projectFromZone: metres of a zone, or milli-degrees for EPSG:4326
ZoneArguments ==
    [x : {-181000, -7589, 500000}, y : {-90001, 33573, 300000},
     zoneCode : ProjectedZones \cup {"EPSG:4326"}, coords : Proj4Outcomes]

projectedFromZone ==
    /\ input # <<>>
    /\ output = <<>>
    /\ output' = <<[fn     |-> "projectFromZone",
                    result |-> projectFromZone(input[1].x, input[1].y,
                                               input[1].zoneCode, input[1].coords)]>>
    /\ UNCHANGED <<appVars, searchVars, featureVars, viewVars, popupVars, asyncVars,
                   obsVars, input>>

(***************************************************************************)
(* The spreadsheet import: parseCoordinateValue and the rows that          *)
(* reader.onload of processExcelFile keeps.  A cell is a number            *)
(* (thousandths) or a string; a row is the list of its columns together    *)
(* with what proj4 returns for its coordinates.                            *)
(***************************************************************************)
MaxRows == 3

CharAt(s, i) == IF i >= 1 /\ i <= Len(s) THEN SubSeq(s, i, i) ELSE ""

\* String.prototype.toLowerCase, for the letters A-Z
toLowerChar(c) ==
    LET upper == "ABCDEFGHIJKLMNOPQRSTUVWXYZ"
        lower == "abcdefghijklmnopqrstuvwxyz"
        hits  == {i \in 1..26 : SubSeq(upper, i, i) = c}
    IN  IF hits = {} THEN c ELSE CharAt(lower, CHOOSE i \in hits : TRUE)

RECURSIVE toLowerCase(_)
toLowerCase(s) ==
    IF Len(s) = 0 THEN ""
    ELSE toLowerChar(CharAt(s, 1)) \o toLowerCase(SubSeq(s, 2, Len(s)))

\* s.replace(',', '.'): the first comma only
RECURSIVE ReplaceFirstComma(_)
ReplaceFirstComma(s) ==
    IF Len(s) = 0 THEN ""
    ELSE IF CharAt(s, 1) = "," THEN "." \o SubSeq(s, 2, Len(s))
    ELSE CharAt(s, 1) \o ReplaceFirstComma(SubSeq(s, 2, Len(s)))

DigitChars == {"0", "1", "2", "3", "4", "5", "6", "7", "8", "9"}
DigitValue(c) == CHOOSE d \in 0..9 : ToString(d) = c

\* the index after the run of digits that starts at i
RECURSIVE DigitRun(_, _)
DigitRun(s, i) == IF CharAt(s, i) \in DigitChars THEN DigitRun(s, i + 1) ELSE i

\* the number written by the digits s[i .. j-1]
RECURSIVE NumberOf(_, _, _)
NumberOf(s, i, j) ==
    IF i >= j THEN 0 ELSE NumberOf(s, i, j - 1) * 10 + DigitValue(CharAt(s, j - 1))

\* parseFloat(s), in thousandths: the longest prefix sign digits [. digits]; NaN
\* when it holds no digit.  Exponents and 'Infinity' are not read
parseFloat(s) ==
    LET signed == CharAt(s, 1) \in {"-", "+"}
        i0     == IF signed THEN 2 ELSE 1
        i1     == DigitRun(s, i0)
        dot    == CharAt(s, i1) = "."
        i2     == IF dot THEN DigitRun(s, i1 + 1) ELSE i1
        nfrac  == IF dot THEN i2 - (i1 + 1) ELSE 0
        kept   == IF nfrac > 3 THEN 3 ELSE nfrac
        frac   == NumberOf(s, i1 + 1, i1 + 1 + kept)
                      * (CASE kept = 0 -> 0 [] kept = 1 -> 100 [] kept = 2 -> 10
                           [] OTHER -> 1)
        abs    == NumberOf(s, i0, i1) * 1000 + frac
    IN  IF (i1 - i0) + nfrac = 0 THEN NaN
        ELSE Num(IF CharAt(s, 1) = "-" THEN -abs ELSE abs)

NumberCell(n) == [type |-> "number", n |-> n, s |-> ""]
StringCell(s) == [type |-> "string", n |-> 0, s |-> s]

parseCoordinateValue(val) ==
    IF val.type = "number" THEN Num(val.n)
    ELSE IF val.s = "" THEN NaN
    ELSE parseFloat(ReplaceFirstComma(StripWhitespace(val.s)))

\* /^(x|lng|lon|longitude|easting)$/i and /^(y|lat|latitude|northing)$/i
XKeyNames == {"x", "lng", "lon", "longitude", "easting"}
YKeyNames == {"y", "lat", "latitude", "northing"}

\* Object.keys(row).find(k => re.test(k)): the index of the first matching column
\* at or after i, 0 for undefined
RECURSIVE FindKey(_, _, _)
FindKey(cols, names, i) ==
    IF i > Len(cols) THEN 0
    ELSE IF toLowerCase(cols[i].key) \in names THEN i
    ELSE FindKey(cols, names, i + 1)

\* what the forEach callback pushes for one row: <<>> or <<[_x, _y]>>
RowPoint(row, zone) ==
    LET xKey == FindKey(row.cols, XKeyNames, 1)
        yKey == FindKey(row.cols, YKeyNames, 1)
    IN  IF xKey = 0 \/ yKey = 0 THEN <<>>
        ELSE LET rawX == parseCoordinateValue(row.cols[xKey].val)
                 rawY == parseCoordinateValue(row.cols[yKey].val)
             IN  IF isNaN(rawX) \/ isNaN(rawY) THEN <<>>
                 ELSE LET wgs84 == projectFromZone(rawX.v, rawY.v, zone,
                                                   row.coords).value
                      IN  IF wgs84 = <<>> THEN <<>>
                          ELSE <<[_x |-> wgs84[1], _y |-> wgs84[2]]>>

RECURSIVE validPointsStopAtBadRow(_, _)
validPointsStopAtBadRow(rows, zone) ==
    IF Len(rows) = 0 \/ RowPoint(Head(rows), zone) = <<>> THEN <<>>
    ELSE RowPoint(Head(rows), zone) \o validPointsStopAtBadRow(Tail(rows), zone)

\* validPoints after jsonData.forEach
RECURSIVE validPoints(_, _)
validPoints(rows, zone) ==
    IF Len(rows) = 0 THEN <<>>
    ELSE RowPoint(Head(rows), zone) \o validPoints(Tail(rows), zone)

\* loadExcelPoints: one feature per point, with id `${layerId}_${idx}`
ExcelFeatureIds(layerId, points) ==
    [i \in 1..Len(points) |-> layerId \o "_" \o ToString(i - 1)]

\* ---- the sheets read ----
InsideCoords == [kind |-> "coords", lng |-> Num(-7589), lat |-> Num(33573)]
OutsideCoords == [kind |-> "coords", lng |-> Num(2000), lat |-> Num(45000)]

SheetRow(kind) ==
    CASE kind = "numbers" ->
           [kind |-> kind, coords |-> InsideCoords,
            cols |-> << [key |-> "Nom", val |-> StringCell("B1")],
                        [key |-> "X", val |-> NumberCell(-7589)],
                        [key |-> "Y", val |-> NumberCell(33573)] >>]
      [] kind = "text" ->
           [kind |-> kind, coords |-> InsideCoords,
            cols |-> << [key |-> "Lon", val |-> StringCell("-7,589")],
                        [key |-> "LAT", val |-> StringCell(" 33.573 ")] >>]
      [] kind = "prefix" ->
           [kind |-> kind, coords |-> InsideCoords,
            cols |-> << [key |-> "x", val |-> StringCell("12abc")],
                        [key |-> "y", val |-> NumberCell(30000)] >>]
      [] kind = "nonNumericX" ->
           [kind |-> kind, coords |-> InsideCoords,
            cols |-> << [key |-> "X", val |-> StringCell("abc")],
                        [key |-> "Y", val |-> NumberCell(33573)] >>]
      [] kind = "emptyY" ->
           [kind |-> kind, coords |-> InsideCoords,
            cols |-> << [key |-> "X", val |-> NumberCell(-7589)],
                        [key |-> "Y", val |-> StringCell("")] >>]
      [] kind = "outside" ->
           [kind |-> kind, coords |-> OutsideCoords,
            cols |-> << [key |-> "Easting", val |-> NumberCell(2000)],
                        [key |-> "Northing", val |-> NumberCell(95000)] >>]
      [] kind = "noColumns" ->
           [kind |-> kind, coords |-> InsideCoords,
            cols |-> << [key |-> "Nom", val |-> StringCell("B7")],
                        [key |-> "Z", val |-> NumberCell(120000)] >>]

RowKinds == {"numbers", "text", "prefix", "nonNumericX", "emptyY", "outside",
             "noColumns"}

\* every sheet of up to MaxRows rows, and the sheets of ten rows of which two have
\* a non-numeric X
Sheets ==
    UNION {[1..n -> {SheetRow(k) : k \in RowKinds}] : n \in 0..MaxRows}
        \cup {[i \in 1..10 |-> IF i \in {p[1], p[2]} THEN SheetRow("nonNumericX")
                                                    ELSE SheetRow("numbers")] :
                 p \in {q \in (1..10) \X (1..10) : q[1] < q[2]}}

\* the file chosen, whether XLSX.read accepts it, and the zone selected
ExcelInputs ==
    [rows : Sheets, readable : {TRUE}, selectedZone : {"EPSG:26191", "EPSG:4326"}]
        \cup [rows : {<<>>}, readable : {FALSE},
              selectedZone : {"EPSG:26191", "EPSG:4326"}]

\* reader.onload of processExcelFile: the rows kept, the features loadExcelPoints
\* makes of them (none when no row is kept), and the alert
excelRead ==
    /\ input # <<>>
    /\ "rows" \in DOMAIN input[1]
    /\ output = <<>>
    /\ LET file   == input[1]
           points == validPoints(file.rows, file.selectedZone)
           loaded == file.readable /\ Len(points) > 0
       IN  /\ output' = <<[fn       |-> "processExcelFile",
                           layerId  |-> IF loaded THEN <<"excel_1">> ELSE <<>>,
                           points   |-> IF file.readable THEN points ELSE <<>>,
                           features |-> IF loaded THEN ExcelFeatureIds("excel_1", points)
                                        ELSE <<>>]>>
           /\ alert' = IF ~file.readable THEN "Erreur lors du traitement."
                       ELSE IF Len(points) = 0 THEN "Aucun point valide trouvé."
                       ELSE "none"
    /\ UNCHANGED <<appVars, searchVars, featureVars, viewVars, popupVars, asyncVars,
                   setSizeCalls, captured, caught, downloaded, input>>

(***************************************************************************)
(* parseCoordinateValue applied to the ways a coordinate is written.  A    *)
(* written number is its digit groups, its fraction digits, the thousands  *)
(* separator and the decimal separator used.                               *)
(***************************************************************************)
\* the groups joined by the separator
RECURSIVE JoinGroups(_, _)
JoinGroups(groups, sep) ==
    IF Len(groups) = 0 THEN ""
    ELSE IF Len(groups) = 1 THEN groups[1]
    ELSE groups[1] \o sep \o JoinGroups(Tail(groups), sep)

\* the text of a written number
WrittenText(w) ==
    (IF w.negative THEN "-" ELSE "")
        \o JoinGroups(w.groups, w.thousands)
        \o (IF w.fraction = "" THEN "" ELSE w.decimal \o w.fraction)

\* the number it denotes, in thousandths
WrittenValue(w) ==
    LET digits == JoinGroups(w.groups, "")
        whole  == NumberOf(digits, 1, Len(digits) + 1)
        nfrac  == Len(w.fraction)
        frac   == NumberOf(w.fraction, 1, nfrac + 1)
                      * (CASE nfrac = 0 -> 0 [] nfrac = 1 -> 100 [] nfrac = 2 -> 10
                           [] OTHER -> 1)
        abs    == whole * 1000 + frac
    IN  IF w.negative THEN -abs ELSE abs

\* the writings: the thousands separator is a space or a comma, the decimal
\* separator a comma or a point; a comma never plays both roles in one text
WrittenNumbers ==
    {w \in [groups    : {<<"0">>, <<"12">>, <<"345">>, <<"1", "234">>, <<"350", "000">>,
                         <<"1", "234", "567">>},
            fraction  : {"", "5", "89", "125"},
            thousands : {"", " ", ","},
            decimal   : {",", "."},
            negative  : BOOLEAN] :
        /\ w.thousands = "," => (w.decimal = "." /\ w.fraction # "")
        /\ Len(w.groups) = 1 => w.thousands = ""}

\* the cells parsed: each text, and each number as a numeric cell
CoordinateCells ==
    {[val |-> StringCell(WrittenText(w)), intended |-> WrittenValue(w)] :
         w \in WrittenNumbers}
      \cup {[val |-> NumberCell(WrittenValue(w)), intended |-> WrittenValue(w)] :
               w \in WrittenNumbers}

coordinateParsed ==
    /\ input # <<>>
    /\ output = <<>>
    /\ output' = <<[fn    |-> "parseCoordinateValue",
                    value |-> parseCoordinateValue(input[1].val)]>>
    /\ UNCHANGED <<appVars, searchVars, featureVars, viewVars, popupVars, asyncVars,
                   obsVars, input>>

(***************************************************************************)
(* loadDXF: the LINE entities of the parsed drawing are reprojected from   *)
(* the selected zone; an entity carries what proj4 returns for its two     *)
(* vertices.                                                               *)
(***************************************************************************)
MaxEntities == 3

ThrowingCoords == [kind |-> "throws", lng |-> NaN, lat |-> NaN]

DxfEntity(kind) ==
    CASE kind = "line" ->
           [kind |-> kind, type |-> "LINE",
            vertices |-> <<[x |-> -7589, y |-> 33573], [x |-> -7580, y |-> 33580]>>,
            coords |-> <<InsideCoords, InsideCoords>>]
      [] kind = "startOutside" ->
           [kind |-> kind, type |-> "LINE",
            vertices |-> <<[x |-> 2000, y |-> 95000], [x |-> -7580, y |-> 33580]>>,
            coords |-> <<OutsideCoords, InsideCoords>>]
      [] kind = "endFails" ->
           [kind |-> kind, type |-> "LINE",
            vertices |-> <<[x |-> -7589, y |-> 33573], [x |-> 181000, y |-> 33580]>>,
            coords |-> <<InsideCoords, ThrowingCoords>>]
      [] kind = "circle" ->
           [kind |-> kind, type |-> "CIRCLE",
            vertices |-> <<[x |-> -7589, y |-> 33573], [x |-> -7589, y |-> 33573]>>,
            coords |-> <<InsideCoords, InsideCoords>>]

EntityKinds == {"line", "startOutside", "endFails", "circle"}

\* what the loop body pushes for one entity: <<>> or <<the LineString's feature>>
EntityFeature(entity, zoneCode) ==
    IF entity.type # "LINE" THEN <<>>
    ELSE LET p1 == projectFromZone(entity.vertices[1].x, entity.vertices[1].y,
                                   zoneCode, entity.coords[1]).value
             p2 == projectFromZone(entity.vertices[2].x, entity.vertices[2].y,
                                   zoneCode, entity.coords[2]).value
         IN  IF p1 # <<>> /\ p2 # <<>> THEN <<[line |-> <<p1, p2>>, of |-> entity.kind]>>
             ELSE <<>>

RECURSIVE dxfFeaturesAbortOnFailure(_, _)
dxfFeaturesAbortOnFailure(entities, zoneCode) ==
    IF Len(entities) = 0 THEN <<>>
    ELSE IF Head(entities).type = "LINE" /\ EntityFeature(Head(entities), zoneCode) = <<>>
    THEN <<>>
    ELSE EntityFeature(Head(entities), zoneCode)
             \o dxfFeaturesAbortOnFailure(Tail(entities), zoneCode)

\* `features` after `for (const entity of dxf.entities)`
RECURSIVE dxfFeatures(_, _)
dxfFeatures(entities, zoneCode) ==
    IF Len(entities) = 0 THEN <<>>
    ELSE EntityFeature(Head(entities), zoneCode) \o dxfFeatures(Tail(entities), zoneCode)

\* the drawings read and the zone they are read in
DxfInputs ==
    [entities : UNION {[1..n -> {DxfEntity(k) : k \in EntityKinds}] : n \in 0..MaxEntities},
     zoneCode : {"EPSG:26191", "EPSG:4326"}]

\* r.onload of loadDXF up to kmlSourceRef.current.addFeatures(features)
dxfRead ==
    /\ input # <<>>
    /\ "entities" \in DOMAIN input[1]
    /\ output = <<>>
    /\ output' = <<[fn       |-> "loadDXF",
                    features |-> dxfFeatures(input[1].entities, input[1].zoneCode)]>>
    /\ UNCHANGED <<appVars, searchVars, featureVars, viewVars, popupVars, asyncVars,
                   obsVars, input>>

(***************************************************************************)
(* The identifiers given to features.  A creation is what the user does    *)
(* and the value Date.now() has when the handler runs; a feature is        *)
(* [uid, id] with id = <<>> when setId was never called (getId() is        *)
(* undefined).                                                             *)
(***************************************************************************)
MaxCreations == 3
MaxClock == 1

\* drawend: const id = `${type}_${Date.now()}`
drawendId(type, now) == <<type \o "_" \o ToString(now)>>

\* addManualPoint: feature.setId(`pt_${Date.now()}`)
addManualPointId(now) == <<"pt_" \o ToString(now)>>

\* locateUser: new Feature({ geometry, label: 'Moi' }), no setId
locateUserId(now) == <<>>

\* processExcelFile: const layerId = `excel_${Date.now()}`
excelLayerId(now) == "excel_" \o ToString(now)

\* loadGeoJSON: if (!f.getId()) f.setId(`json_${Date.now()}_${random}`)
importedId(fileId, now, random) ==
    IF fileId # <<>> THEN fileId
    ELSE <<"json_" \o ToString(now) \o "_" \o random>>

\* VectorSource.addFeature: a feature whose id is already in the source's id
\* index is not added
addFeature(src, f) ==
    IF f.id # <<>> /\ \E g \in src : g.id = f.id THEN src ELSE src \cup {f}

\* the three sources after one creation; uid is the position of the creation
Created(s, c, uid) ==
    CASE c.op = "drawend" ->
           IF c.type = "Point"
           THEN [s EXCEPT !.pointsSource =
                    addFeature(@, [uid |-> uid, id |-> drawendId(c.type, c.now)])]
           ELSE [s EXCEPT !.source =
                    addFeature(@, [uid |-> uid, id |-> drawendId(c.type, c.now)])]
      [] c.op = "addManualPoint" ->
           [s EXCEPT !.pointsSource =
               addFeature(@, [uid |-> uid, id |-> addManualPointId(c.now)])]
      [] c.op = "locateUser" ->
           [s EXCEPT !.pointsSource =
               addFeature(@, [uid |-> uid, id |-> locateUserId(c.now)])]
      [] c.op = "loadExcelPoints" ->
           LET ids == ExcelFeatureIds(excelLayerId(c.now), <<1, 2>>)
           IN  [s EXCEPT !.kmlSource =
                   addFeature(addFeature(@, [uid |-> uid, id |-> <<ids[1]>>]),
                              [uid |-> uid + 10, id |-> <<ids[2]>>])]
      [] c.op = "loadGeoJSON" ->
           [s EXCEPT !.kmlSource =
               addFeature(@, [uid |-> uid, id |-> importedId(c.fileId, c.now, c.random)])]

RECURSIVE CreatedAll(_, _, _)
CreatedAll(s, script, uid) ==
    IF Len(script) = 0 THEN s
    ELSE CreatedAll(Created(s, Head(script), uid), Tail(script), uid + 1)

\* what the user can do at a given millisecond
Creations ==
    UNION {   [op : {"drawend"}, type : {"Polygon", "Point"}, now : {t}]
         \cup [op : {"addManualPoint", "locateUser", "loadExcelPoints"}, now : {t}]
         \cup [op : {"loadGeoJSON"}, fileId : {<<>>, <<"parcel">>},
               random : {"k3f9a"}, now : {t}]
         : t \in 0..MaxClock}

\* the clock does not run backwards between two handlers
Scripts ==
    {s \in UNION {[1..n -> Creations] : n \in 0..MaxCreations} :
        \A i \in 1..(Len(s) - 1) : s[i].now <= s[i + 1].now}

\* the handlers run one after the other on the script
featuresCreated ==
    /\ input # <<>>
    /\ output = <<>>
    /\ output' = <<[fn |-> "features"] @@
                   CreatedAll([source |-> {}, pointsSource |-> {}, kmlSource |-> {}],
                              input[1], 1)>>
    /\ UNCHANGED <<appVars, searchVars, featureVars, viewVars, popupVars, asyncVars,
                   obsVars, input>>

(***************************************************************************)
(* The union bounding box of getMapCanvas: a reduce over the target        *)
(* features, starting from the empty box.                                  *)
(***************************************************************************)
MaxTargets == 3
Infinity == 2147483647

Min(a, b) == IF a < b THEN a ELSE b

extendKeepsLast(ext, e) == e

\* the reducer: [min(ext[0], e[0]), min(ext[1], e[1]), max(ext[2], e[2]), max(ext[3], e[3])]
extend(ext, e) ==
    <<Min(ext[1], e[1]), Min(ext[2], e[2]), Max(ext[3], e[3]), Max(ext[4], e[4])>>

\* targetFeatures.reduce(..., [Infinity, Infinity, -Infinity, -Infinity])
RECURSIVE reduceExtent(_, _)
reduceExtent(features, ext) ==
    IF Len(features) = 0 THEN ext
    ELSE reduceExtent(Tail(features), extend(ext, GeomExtent(Head(features))))

EmptyExtent == <<Infinity, Infinity, -Infinity, -Infinity>>

\* the features a box is taken of: drawn shapes, points and imported features
ExtentFeatures ==
    {"Rectangle_1", "Rectangle_2", "Polygon_3", "Polygon_4", "kml_1", "pt_1", "pt_2"}

ExtentInputs == UNION {[1..n -> ExtentFeatures] : n \in 1..MaxTargets}

\* the box of the features before the last one was added, and of all of them
extentReduced ==
    /\ input # <<>>
    /\ output = <<>>
    /\ output' = <<[fn     |-> "getMapCanvas.extent",
                    before |-> reduceExtent(SubSeq(input[1], 1, Len(input[1]) - 1),
                                            EmptyExtent),
                    extent |-> reduceExtent(input[1], EmptyExtent)]>>
    /\ UNCHANGED <<appVars, searchVars, featureVars, viewVars, popupVars, asyncVars,
                   obsVars, input>>

(***************************************************************************)
(* The raster of an export: getMapCanvas from the target features to the   *)
(* width and height of the capture canvas.                                 *)
(***************************************************************************)
\* targets close enough for their spans to stay within 32 bits in 1/100000 m
RasterFeatures == {"Rectangle_1", "Rectangle_2", "Point_5", "Line_6"}

RasterInputs ==
    [features : UNION {[1..n -> RasterFeatures] : n \in 1..MaxTargets},
     targetScale : ScaleInputs]

\* extent, res, width and height of getMapCanvas
rasterSized ==
    /\ input # <<>>
    /\ output = <<>>
    /\ LET extent == reduceExtent(input[1].features, EmptyExtent)
           size   == ExportSize(extent, input[1].targetScale)
       IN  output' = <<[fn     |-> "getMapCanvas.size",
                        extent |-> extent,
                        res    |-> ExportResolution(extent, input[1].targetScale),
                        width  |-> size[1],
                        height |-> size[2]]>>
    /\ UNCHANGED <<appVars, searchVars, featureVars, viewVars, popupVars, asyncVars,
                   obsVars, input>>

(***************************************************************************)
(* The SelectionData handed to onSelectionComplete, for each way a         *)
(* selection is made: area and perimeter are TRUE when the text is not     *)
(* empty.                                                                  *)
(***************************************************************************)
SelectableFeatures == ExtentFeatures \cup {"Point_5", "Line_6"}

SelectableShapes == {f \in SelectableFeatures : IsPolygon(f) \/ IsLineString(f)}

\* drawend of a shape, selectLayer of one drawn feature or of a layer, a loaded
\* file, the Select interaction
SelectionInputs ==
         [way : {"drawend"}, features : {<<f>> : f \in SelectableShapes}]
    \cup [way : {"selectLayer"}, features : {<<f>> : f \in SelectableFeatures}]
    \cup [way : {"selectLayer", "import"},
          features : UNION {[1..n -> SelectableFeatures] : n \in 2..MaxTargets}]
    \cup [way : {"import"}, features : {<<f>> : f \in SelectableFeatures}]
    \cup [way : {"click"}, features : {<<f>> : f \in SelectableFeatures}]

selectionComplete ==
    /\ input # <<>>
    /\ output = <<>>
    /\ LET fs    == input[1].features
           first == fs[1]
       IN  output' = <<[fn   |-> "onSelectionComplete",
                        data |-> CASE input[1].way = "click" -> ClickSelectionOf(first)
                                   [] input[1].way = "drawend" ->
                                        SelectionOf(first, GeomExtent(first), first)
                                   [] input[1].way = "selectLayer" /\ Len(fs) = 1 ->
                                        SelectionOf(first, GeomExtent(first), first)
                                   [] OTHER ->
                                        SelectionOf(first, UnionExtent(Range(fs)), "")]>>
    /\ UNCHANGED <<appVars, searchVars, featureVars, viewVars, popupVars, asyncVars,
                   obsVars, input>>

(***************************************************************************)
(* The network lookups of geoService.  A response is what fetch and        *)
(* response.json() give: "rejected" (fetch rejects), "invalidJson" (json() *)
(* rejects) or "json" with the decoded data, <<>> being JSON null.  Each   *)
(* function returns [value, thrown].                                       *)
(***************************************************************************)
\* name.replace(/\s+/g, '_').replace(/[^a-z0-9_]/g, '')
RECURSIVE Slug(_, _)
Slug(s, inSpace) ==
    IF Len(s) = 0 THEN ""
    ELSE LET c    == CharAt(s, 1)
             rest == SubSeq(s, 2, Len(s))
             keep == {CharAt("abcdefghijklmnopqrstuvwxyz0123456789_", i) : i \in 1..37}
         IN  IF c \in {" ", "\t", "\n"}
             THEN (IF inSpace THEN "" ELSE "_") \o Slug(rest, TRUE)
             ELSE (IF c \in keep THEN c ELSE "") \o Slug(rest, FALSE)

\* addr.village || addr.town || addr.city || addr.municipality || addr.county || "maroc"
FirstName(addr) ==
    IF addr.village # "" THEN addr.village
    ELSE IF addr.town # "" THEN addr.town
    ELSE IF addr.city # "" THEN addr.city
    ELSE IF addr.municipality # "" THEN addr.municipality
    ELSE IF addr.county # "" THEN addr.county
    ELSE "maroc"

fetchLocationName(response) ==
    IF response.kind # "json" \/ response.data = <<>>
    THEN [value |-> "location", thrown |-> FALSE]
    ELSE IF response.data[1].address = <<>>
    THEN [value |-> "location", thrown |-> FALSE]
    ELSE [value  |-> Slug(toLowerCase(FirstName(response.data[1].address[1])), FALSE),
          thrown |-> FALSE]

searchPlaces(query, response) ==
    IF Len(query) < 3 THEN [value |-> <<>>, thrown |-> FALSE]
    ELSE IF response.kind # "json" THEN [value |-> <<>>, thrown |-> FALSE]
    ELSE [value |-> response.data, thrown |-> FALSE]

fetchElevationUncaught(response) ==
    IF response.kind # "json" \/ response.data = <<>>
    THEN [value |-> 0, thrown |-> TRUE]
    ELSE IF Len(response.data[1].results) > 0
    THEN [value |-> response.data[1].results[1].elevation, thrown |-> FALSE]
    ELSE [value |-> 0, thrown |-> FALSE]

fetchElevation(response) ==
    IF response.kind # "json" THEN [value |-> 0, thrown |-> FALSE]
    ELSE IF response.data # <<>> /\ Len(response.data[1].results) > 0
    THEN [value |-> response.data[1].results[1].elevation, thrown |-> FALSE]
    ELSE [value |-> 0, thrown |-> FALSE]

\* ---- the responses ----
FailedResponses == {[kind |-> "rejected", data |-> <<>>], [kind |-> "invalidJson", data |-> <<>>]}

Address(village, town, county) ==
    [village |-> village, town |-> town, city |-> "", municipality |-> "", county |-> county]

LocationResponses ==
    FailedResponses
        \cup {[kind |-> "json", data |-> <<>>],
              [kind |-> "json", data |-> <<[address |-> <<>>]>>]}
        \cup {[kind |-> "json", data |-> <<[address |-> <<Address(v, t, c)>>]>>] :
                 v \in {"", "Sidi-Ifni"}, t \in {"", "Dar  Bouazza"}, c \in {"", "Casablanca"}}

SearchResponses ==
    FailedResponses
        \cup {[kind |-> "json", data |-> d] : d \in {<<>>, <<"casa">>, <<"casa", "rabat">>}}

ElevationResponses ==
    FailedResponses
        \cup {[kind |-> "json", data |-> <<>>],
              [kind |-> "json", data |-> <<[results |-> <<>>]>>]}
        \cup {[kind |-> "json", data |-> <<[results |-> <<[elevation |-> z]>>]>>] :
                 z \in {-12, 0, 57, 1230}}

EnrichInputs ==
         [fn : {"fetchLocationName"}, response : LocationResponses]
    \cup [fn : {"searchPlaces"}, query : Queries, response : SearchResponses]
    \cup [fn : {"fetchElevation"}, response : ElevationResponses]

locationFetched ==
    /\ input # <<>>
    /\ input[1].fn = "fetchLocationName"
    /\ output = <<>>
    /\ output' = <<[fn |-> "fetchLocationName"] @@ fetchLocationName(input[1].response)>>
    /\ UNCHANGED <<appVars, searchVars, featureVars, viewVars, popupVars, asyncVars,
                   obsVars, input>>

placesSearched ==
    /\ input # <<>>
    /\ input[1].fn = "searchPlaces"
    /\ output = <<>>
    /\ output' = <<[fn |-> "searchPlaces"]
                       @@ searchPlaces(input[1].query, input[1].response)>>
    /\ UNCHANGED <<appVars, searchVars, featureVars, viewVars, popupVars, asyncVars,
                   obsVars, input>>

elevationFetched ==
    /\ input # <<>>
    /\ input[1].fn = "fetchElevation"
    /\ output = <<>>
    /\ output' = <<[fn |-> "fetchElevation"] @@ fetchElevation(input[1].response)>>
    /\ UNCHANGED <<appVars, searchVars, featureVars, viewVars, popupVars, asyncVars,
                   obsVars, input>>

(***************************************************************************)
(* The union bounding box of selectLayer, of the file loaders and of the   *)
(* earlier getMapCanvas: `let extent = features[0].getGeometry().getExtent()`*)
(* and a forEach that assigns into extent[0..3].  getExtent() without an   *)
(* argument returns the array the geometry keeps as its extent, so         *)
(* `extent` and the extent of features[0] are one array: extents[i] below  *)
(* is the array kept by the geometry of features[i].                       *)
(***************************************************************************)
\* feature.getGeometry().getExtent() of each feature before the computation
OwnExtents(features) == [i \in 1..Len(features) |-> GeomExtent(features[i])]

\* the forEach from feature i on: e is extents[i], the assignments write extents[1]
RECURSIVE forEachExtend(_, _)
forEachExtend(extents, i) ==
    IF i > Len(extents) THEN extents
    ELSE forEachExtend([extents EXCEPT ![1] = extend(extents[1], extents[i])], i + 1)

\* the union as the handlers compute it, and what every geometry then holds
unionInPlace ==
    /\ input # <<>>
    /\ output = <<>>
    /\ LET extents == forEachExtend(OwnExtents(input[1]), 1)
       IN  output' = <<[fn      |-> "selectLayer.extent",
                        extent  |-> extents[1],
                        extents |-> extents]>>
    /\ UNCHANGED <<appVars, searchVars, featureVars, viewVars, popupVars, asyncVars,
                   obsVars, input>>

(***************************************************************************)
(* The capture of getMapCanvas: which layers are rendered, and the calls   *)
(* the 'rendercomplete' listener makes on the 2D context of the capture    *)
(* canvas, in order.                                                       *)
(***************************************************************************)
\* new Map({layers: [...]})
MapLayers ==
    <<[name |-> "base",    class |-> "TileLayer"],
      [name |-> "kml",     class |-> "VectorLayer"],
      [name |-> "points",  class |-> "VectorLayer"],
      [name |-> "measure", class |-> "VectorLayer"],
      [name |-> "manual",  class |-> "VectorLayer"]>>

\* getLayers().getArray().filter(l => l instanceof VectorLayer)
layersToHide == {i \in 1..Len(MapLayers) : MapLayers[i].class = "VectorLayer"}

\* geom instanceof ...
GeometryType(f) ==
    CASE f = "Multi_8"   -> "MultiPolygon"
      [] IsLineString(f) -> "LineString"
      [] IsPolygon(f)    -> "Polygon"
      [] OTHER           -> "Point"

\* the polygons of a geometry, each the sequence of its rings, outer ring first
Polygons(f) ==
    CASE f = "Rectangle_1" -> << <<"Rectangle_1.outer">> >>
      [] f = "Polygon_3"   -> << <<"Polygon_3.outer", "Polygon_3.hole">> >>
      [] f = "Multi_8"     -> << <<"Multi_8.a.outer">>, <<"Multi_8.b.outer", "Multi_8.b.hole">> >>
      [] OTHER             -> << >>

CanvasOp(op, arg) == [op |-> op, arg |-> arg]

\* coords = poly.getCoordinates()[0]; moveTo, lineTo ..., closePath
ringOps(poly) == <<CanvasOp("ring", poly[1])>>

RECURSIVE polygonsOps(_)
polygonsOps(polys) ==
    IF Len(polys) = 0 THEN <<>>
    ELSE ringOps(Head(polys)) \o polygonsOps(Tail(polys))

\* targetFeatures.forEach(feature => ...)
RECURSIVE clipPath(_)
clipPath(features) ==
    IF Len(features) = 0 THEN <<>>
    ELSE LET f == Head(features)
         IN  (CASE GeometryType(f) = "Polygon"      -> ringOps(Polygons(f)[1])
                [] GeometryType(f) = "MultiPolygon" -> polygonsOps(Polygons(f))
                [] OTHER                            -> <<>>)
             \o clipPath(Tail(features))

\* if (clipMode === 'LAYER') { beginPath; ...; clip }
clipOps(clipMode, features) ==
    IF clipMode = "LAYER"
    THEN <<CanvasOp("beginPath", "")>> \o clipPath(features) \o <<CanvasOp("clip", "")>>
    ELSE <<>>

\* the '.ol-layer canvas' elements after renderSync: one for each visible layer
RECURSIVE layerCanvases(_, _, _)
layerCanvases(i, hidden, width) ==
    IF i > Len(MapLayers) THEN <<>>
    ELSE (IF i \in hidden THEN <<>> ELSE <<[layer |-> MapLayers[i].name, width |-> width]>>)
         \o layerCanvases(i + 1, hidden, width)

\* layerCanvases.forEach(c => { if (c.width > 0) { ...; ctx.drawImage(c, 0, 0) } })
RECURSIVE drawOps(_)
drawOps(canvases) ==
    IF Len(canvases) = 0 THEN <<>>
    ELSE (IF Head(canvases).width > 0
          THEN <<CanvasOp("drawImage", Head(canvases).layer)>>
          ELSE <<>>)
         \o drawOps(Tail(canvases))

captureOpsClipLast(clipMode, features, width) ==
    drawOps(layerCanvases(1, layersToHide, width)) \o clipOps(clipMode, features)

\* the listener from getContext('2d') to the last drawImage
captureOps(clipMode, features, width) ==
    clipOps(clipMode, features) \o drawOps(layerCanvases(1, layersToHide, width))

CaptureFeatures == {"Rectangle_1", "Polygon_3", "Multi_8", "Line_6", "Point_5"}

CaptureInputs ==
    [clipMode : {"CANVAS", "LAYER"},
     features : UNION {[1..n -> CaptureFeatures] : n \in 1..MaxTargets},
     width    : {0, 256}]

canvasComposited ==
    /\ input # <<>>
    /\ output = <<>>
    /\ output' = <<[fn  |-> "getMapCanvas.capture",
                    ops |-> captureOps(input[1].clipMode, input[1].features,
                                       input[1].width)]>>
    /\ UNCHANGED <<appVars, searchVars, featureVars, viewVars, popupVars, asyncVars,
                   obsVars, input>>

(***************************************************************************)
(* The export workflow, with a drawn shape as the target.  Selecting from   *)
(* the layer list, importing files and the manual-feature notification are *)
(* exercised by NextGeocode below.  NotifyTimeout only writes              *)
(* manualFeatures, which the workflow reads in GenerateShown when          *)
(* selectedLayerId is 'manual': a case only those handlers lead to.        *)
(***************************************************************************)
Next ==
    \/ \E id \in DrawnIds : DrawEnd(id)
    \/ undo
    \/ \E s \in Scales : handleScaleChange(s)
    \/ startClipping
    \/ getMapCanvas
    \/ \E outcome \in [InStage("rendering") -> CaptureOutcomes] : rendercomplete(outcome)
    \/ \E i \in 1..MaxInFlight, throws \in BOOLEAN : zipGenerated(i, throws)
    \/ downloadFile
    \/ resetAll

Spec == Init /\ [][Next]_vars

(***************************************************************************)
(* Reverse geocoding of the selection.                                     *)
(***************************************************************************)
NextGeocode ==
    \/ toggleTool
    \/ \E id \in DrawnIds : DrawEnd(id)
    \/ NotifyTimeout
    \/ undo
    \/ \E f \in DrawnIds \cup KmlIds : SelectClick(f)
    \/ \E l \in LayerIds : handleFileUpload(l)
    \/ \E l \in LayerIds, throws \in BOOLEAN : FileLoaded(l, KmlIds, throws)
    \/ \E l \in {"manual"} \cup DrawnIds \cup LayerIds : handleLayerSelect(l)
    \/ resetAll
    \/ \E req \in geoPending, ok \in BOOLEAN : geocodeResponse(req, ok)

SpecGeocode == Init /\ [][NextGeocode]_vars

(***************************************************************************)
(* Place search.                                                           *)
(***************************************************************************)
NextSearch ==
    \/ \E val \in Queries : handleSearchInput(val)
    \/ \E q \in searchPending, ok \in BOOLEAN : searchResponse(q, ok)
    \/ handleSelectSearchResult
    \/ resetAll

SpecSearch == Init /\ [][NextSearch]_vars

(***************************************************************************)
(* Point popups.                                                           *)
(***************************************************************************)
NextPopup ==
    \/ \E p \in PointIds : addManualPoint(p)
    \/ \E p \in PointIds : PointClick(p)
    \/ closePopup
    \/ \E p \in elevPending, ok \in BOOLEAN : elevationResponse(p, ok)
    \/ resetAll

SpecPopup == Init /\ [][NextPopup]_vars

(***************************************************************************)
(* The files of one archive, for every selection, scale, place and date.   *)
(***************************************************************************)
InitArchive ==
    /\ Mounted
    /\ input \in {<<in>> : in \in ArchiveInputs}
    /\ output = <<>>

NextArchive == packArchive

SpecArchive == InitArchive /\ [][NextArchive]_vars

(***************************************************************************)
(* The scale conversions, for every scale value and latitude.              *)
(***************************************************************************)
InitScale ==
    /\ Mounted
    /\ input \in {<<a>> : a \in ScaleArguments}
    /\ output = <<>>

NextScale ==
    \/ resolutionComputed
    \/ scaleComputed

SpecScale == InitScale /\ [][NextScale]_vars

(***************************************************************************)
(* projectFromZone, for every zone and every outcome of the transform.     *)
(***************************************************************************)
InitProjection ==
    /\ Mounted
    /\ input \in {<<a>> : a \in ZoneArguments}
    /\ output = <<>>

NextProjection == projectedFromZone

SpecProjection == InitProjection /\ [][NextProjection]_vars

(***************************************************************************)
(* The spreadsheet import, for every sheet and zone.                       *)
(***************************************************************************)
InitExcel ==
    /\ Mounted
    /\ input \in {<<f>> : f \in ExcelInputs}
    /\ output = <<>>

NextExcel == excelRead

SpecExcel == InitExcel /\ [][NextExcel]_vars

(***************************************************************************)
(* parseCoordinateValue, for every writing of a coordinate.                *)
(***************************************************************************)
InitParse ==
    /\ Mounted
    /\ input \in {<<c>> : c \in CoordinateCells}
    /\ output = <<>>

NextParse == coordinateParsed

SpecParse == InitParse /\ [][NextParse]_vars

(***************************************************************************)
(* The imports that reproject: drawings and spreadsheets.                  *)
(***************************************************************************)
InitBatch ==
    /\ Mounted
    /\ input \in {<<f>> : f \in DxfInputs \cup ExcelInputs}
    /\ output = <<>>

NextBatch ==
    \/ dxfRead
    \/ excelRead

SpecBatch == InitBatch /\ [][NextBatch]_vars

(***************************************************************************)
(* The features created in a session and their identifiers.                *)
(***************************************************************************)
InitIds ==
    /\ Mounted
    /\ input \in {<<s>> : s \in Scripts}
    /\ output = <<>>

NextIds == featuresCreated

SpecIds == InitIds /\ [][NextIds]_vars

(***************************************************************************)
(* The union bounding box of a list of features.                           *)
(***************************************************************************)
InitExtent ==
    /\ Mounted
    /\ input \in {<<fs>> : fs \in ExtentInputs}
    /\ output = <<>>

NextExtent == extentReduced

SpecExtent == InitExtent /\ [][NextExtent]_vars

(***************************************************************************)
(* The raster size of an export.                                           *)
(***************************************************************************)
InitRaster ==
    /\ Mounted
    /\ input \in {<<a>> : a \in RasterInputs}
    /\ output = <<>>

NextRaster == rasterSized

SpecRaster == InitRaster /\ [][NextRaster]_vars

(***************************************************************************)
(* An export of "all drawn features" with shapes and points on the map.    *)
(***************************************************************************)
NextManual ==
    \/ \E id \in DrawnIds : DrawEnd(id)
    \/ \E p \in PointIds : addManualPoint(p)
    \/ handleLayerSelect("manual")
    \/ startClipping
    \/ getMapCanvas

SpecManual == Init /\ [][NextManual]_vars

(***************************************************************************)
(* The selections reported to the application.                             *)
(***************************************************************************)
InitSelection ==
    /\ Mounted
    /\ input \in {<<a>> : a \in SelectionInputs}
    /\ output = <<>>

NextSelection == selectionComplete

SpecSelection == InitSelection /\ [][NextSelection]_vars

(***************************************************************************)
(* The network lookups: each function on every response, and the handlers  *)
(* that await them during a selection and an export.                       *)
(***************************************************************************)
InitEnrich ==
    /\ Mounted
    /\ input \in {<<>>} \cup {<<a>> : a \in EnrichInputs}
    /\ output = <<>>

NextEnrich ==
    \/ locationFetched
    \/ placesSearched
    \/ elevationFetched
    \/ input = <<>> /\ \E id \in DrawnIds : DrawEnd(id)
    \/ input = <<>> /\ startClipping
    \/ input = <<>> /\ getMapCanvas
    \/ input = <<>> /\ \E req \in geoPending, ok \in BOOLEAN : geocodeResponse(req, ok)
    \/ input = <<>> /\ \E val \in {"casa", "rabat"} : handleSearchInput(val)
    \/ input = <<>> /\ \E q \in searchPending, ok \in BOOLEAN : searchResponse(q, ok)
    \/ input = <<>> /\ \E p \in PointIds : addManualPoint(p)
    \/ input = <<>> /\ \E p \in elevPending, ok \in BOOLEAN : elevationResponse(p, ok)

SpecEnrich == InitEnrich /\ [][NextEnrich]_vars

(***************************************************************************)
(* The export workflow with its scheduling: the timer of startClipping     *)
(* fires, the map signals 'rendercomplete', and the promises of the        *)
(* archive settle (weak fairness of the three continuations).              *)
(***************************************************************************)
\* getMapCanvas is enabled exactly when an export waits for its timer, and it
\* always changes exports: its weak fairness is written with that condition
TimerFires == []<>(InStage("timer") = {}) \/ []<><<getMapCanvas>>_vars

\* the user draws, undoes, asks for an export and resets; the exports settle
NextFair ==
    \/ \E id \in DrawnIds : DrawEnd(id)
    \/ undo
    \/ startClipping
    \/ getMapCanvas
    \/ \E outcome \in [InStage("rendering") -> CaptureOutcomes] : rendercomplete(outcome)
    \/ \E i \in 1..MaxInFlight, throws \in BOOLEAN : zipGenerated(i, throws)
    \/ resetAll

SpecFair ==
    /\ Init /\ [][NextFair]_vars
    /\ TimerFires
    /\ WF_vars(\E outcome \in [InStage("rendering") -> CaptureOutcomes] :
                  rendercomplete(outcome))
    /\ WF_vars(\E i \in 1..MaxInFlight, throws \in BOOLEAN : zipGenerated(i, throws))

(***************************************************************************)
(* Exports of selections at two places, while the reverse-geocoding        *)
(* lookups of useEffect([exportData]) are in flight.                       *)
(***************************************************************************)
NamedShapes == {"Rectangle_1", "Polygon_4"}

NextNaming ==
    \/ \E id \in NamedShapes : DrawEnd(id)
    \/ \E req \in geoPending, ok \in BOOLEAN : geocodeResponse(req, ok)
    \/ startClipping
    \/ getMapCanvas
    \/ \E outcome \in [InStage("rendering") -> CaptureOutcomes] : rendercomplete(outcome)
    \/ \E i \in 1..MaxInFlight, throws \in BOOLEAN : zipGenerated(i, throws)

SpecNaming == Init /\ [][NextNaming]_vars

(***************************************************************************)
(* The union bounding box computed in place.                               *)
(***************************************************************************)
NextUnion == unionInPlace

SpecUnion == InitExtent /\ [][NextUnion]_vars

(***************************************************************************)
(* The operations that add or remove a drawn feature, and the list of them *)
(* that App holds.                                                         *)
(***************************************************************************)
NextDrawn ==
    \/ \E id \in DrawnIds : DrawEnd(id)
    \/ NotifyTimeout
    \/ \E p \in PointIds : addManualPoint(p)
    \/ locateUser
    \/ undo
    \/ \E f \in DrawnIds : SelectClick(f)
    \/ deleteSelectedFeature
    \/ resetAll

SpecDrawn == Init /\ [][NextDrawn]_vars

(***************************************************************************)
(* The capture of an export.                                               *)
(***************************************************************************)
InitCapture ==
    /\ Mounted
    /\ input \in {<<c>> : c \in CaptureInputs}
    /\ output = <<>>

NextCapture == canvasComposited

SpecCapture == InitCapture /\ [][NextCapture]_vars

(***************************************************************************)
(* Properties of the export workflow (checked under Spec).                 *)
(***************************************************************************)
\* exports of a queue that wait for their timer / for 'rendercomplete'
TimerCount(q) == Cardinality({i \in 1..Len(q) : q[i].stage = "timer"})
RenderingCount(q) == Cardinality({i \in 1..Len(q) : q[i].stage = "rendering"})

\* C1: while an export is in flight, no second export is started and no scale
\* change (setMapScale through handleScaleChange) is applied.
C1_ExportIsExclusive ==
    [][exports # <<>> =>
          /\ Len(exports') <= Len(exports)
          /\ selectedScale' = selectedScale]_vars

\* an export is in flight and a second one has been started by a scale change
C1_SecondExportStarted ==
    /\ Len(exports) = 2
    /\ exports[1].scale # exports[2].scale
    /\ exports[1].stage = "rendering"
    /\ viewResolution # ExportResolution(exports[1].extent, exports[1].scale)

\* C2: on every way out of getMapCanvas after the resize (the 'rendercomplete'
\* listener has run), the map size, the view resolution, the view center and the
\* visibility of the vector layers are the ones saved before the resize.
C2_ViewRestoredOnExit ==
    [][(RenderingCount(exports) > 0 /\ RenderingCount(exports') = 0) =>
          /\ mapSize' = exports[FirstInStage("rendering")].origSize
          /\ viewResolution' = exports[FirstInStage("rendering")].origRes
          /\ viewCenter' = exports[FirstInStage("rendering")].origCenter
          /\ layersVisible']_vars

\* the only export failed, nothing is in flight, and the map is still at the
\* export size with its vector layers hidden
C2_LeftResized ==
    /\ exports = <<>>
    /\ caught = <<"Empty Canvas">>
    /\ ~layersVisible
    /\ mapSize # <<ScreenW, ScreenH>>

\* C3: the map is never resized to an export size above 16384 px in width or
\* height.
C3_SizeCeiling ==
    \A k \in 1..Len(setSizeCalls) :
        setSizeCalls[k][1] <= 16384 /\ setSizeCalls[k][2] <= 16384

\* the map has been resized to an export size above the ceiling
C3_OversizedResize ==
    /\ setSizeCalls # <<>>
    /\ mapSize = setSizeCalls[1]
    /\ mapSize[1] > 16384
    /\ mapSize[2] > 16384

\* C4: the step becomes PROCESSING only from SELECTED, and stops being PROCESSING
\* only by becoming DONE or IDLE in a step in which an export finishes.
C4_ProcessingTransitions ==
    [][/\ (step # "PROCESSING" /\ step' = "PROCESSING") => step = "SELECTED"
       /\ (step = "PROCESSING" /\ step' # "PROCESSING") =>
              (step' \in {"DONE", "IDLE"} /\ Len(exports') < Len(exports))]_vars

\* the step left PROCESSING for SELECTED while the export is still in flight
C4_SelectedWhileExporting ==
    /\ step = "SELECTED"
    /\ exports # <<>>

\* C5: a step in which an export fails leaves the step IDLE, shows the error
\* alert, and leaves zipBlob, fileName and exportResult as they were.
C5_FailureAborts ==
    [][caught' # <<>> =>
          /\ step' = "IDLE"
          /\ alert' = ErrMsg
          /\ UNCHANGED <<zipBlob, fileName, exportResult>>]_vars

\* an export failed after an earlier one had stored its artifact
C5_FailedExport ==
    /\ caught # <<>>
    /\ step = "IDLE"
    /\ alert = ErrMsg
    /\ zipBlob # <<>>

C7_CaptureAfterRenderComplete ==
    [][/\ \A c \in captured' :
              \E i \in 1..Len(exports) :
                  /\ exports[i].stage = "rendering"
                  /\ c = <<exports[i].w, exports[i].h>>
       /\ setSizeCalls' # <<>> => captured' = {}]_vars

\* a canvas was composited and its export went on to packaging
C7_Captured ==
    /\ captured # {}
    /\ \E i \in 1..Len(exports) :
           exports[i].stage = "packaging" /\ <<exports[i].w, exports[i].h>> \in captured

(***************************************************************************)
(* Properties of the network lookups.                                      *)
(***************************************************************************)
\* C8 (under SpecSearch): the response to a search whose text is no longer the
\* text of the search box leaves searchResults as they are.
C8_StaleSearchDiscarded ==
    [][\A q \in searchPending \ searchPending' :
           q # searchQuery => searchResults' = searchResults]_vars

\* every response is in and the list shows the results of an older text
C8_StaleResultsShown ==
    /\ searchPending = {}
    /\ Len(searchQuery) > 2
    /\ searchResults # <<>>
    /\ searchResults[1] # searchQuery

\* C9 (under SpecGeocode): once every lookup has been answered, locationName is
\* the name found for the current selection (or the fallback of a failed
\* lookup), and the default when resetAll left no selection.
C9_LatestLookupWins ==
    geoPending = {} =>
        locationName \in (IF exportData = <<>>
                          THEN {DefaultLocation}
                          ELSE {GeoRequest(exportData[1]), DefaultLocation})

\* every lookup has been answered and the name is the one of an earlier
\* selection elsewhere
C9_StaleNameKept ==
    /\ geoPending = {}
    /\ exportData # <<>>
    /\ locationName \notin {GeoRequest(exportData[1]), DefaultLocation}

\* C10 (under SpecPopup): an elevation shown in the popup is the elevation of the
\* point the popup describes (or the 0 of a failed lookup).
C10_ElevationOfShownPoint ==
    (popupContent # <<>> /\ popupContent[1].z # <<>>) =>
        popupContent[1].z[1] \in {Elevation(popupContent[1].label), 0}

\* the popup is open on a point, every lookup has been answered, and z is the
\* elevation of the other point
C10_WrongElevationShown ==
    /\ overlayPosition # <<>>
    /\ elevPending = {}
    /\ popupContent # <<>>
    /\ popupContent[1].z # <<>>
    /\ popupContent[1].z[1] \notin {Elevation(popupContent[1].label), 0}

(***************************************************************************)
(* Properties of the download and of the exported files.                   *)
(***************************************************************************)
\* C11: a step that downloads the archive starts and ends in DONE, starts no
\* export, resizes and captures nothing, and leaves zipBlob, fileName,
\* exportResult and the view as they were.
C11_DownloadComputesNothing ==
    [][downloaded' # <<>> =>
          /\ step = "DONE" /\ step' = "DONE"
          /\ UNCHANGED <<zipBlob, fileName, exportResult, exports>>
          /\ UNCHANGED viewVars
          /\ setSizeCalls' = <<>> /\ captured' = {}]_vars

\* the archive of a finished export has been downloaded under its file name
C11_Downloaded ==
    /\ downloaded # <<>>
    /\ downloaded = fileName
    /\ zipBlob # <<>>
    /\ step = "DONE"

\* C12: the shape drawn around 33.5731 N, 7.5898 W, exported under the label "1 km"
\* in February 2026 with the place slug "rabat": the base name the program gives
\* is rabat_1km_n33_w007_02.26_topoma, the longitude being floor(|-7.5898|) = 7
C12_ExampleBaseName ==
    (/\ input # <<>> /\ output # <<>>
     /\ input[1].feature = "Rectangle_2" /\ input[1].path = "drawend"
     /\ input[1].currentScale = 100000 /\ input[1].locationName = "rabat"
     /\ input[1].date = [month |-> 2, year |-> 2026])
        => output[1].baseName = "rabat_1km_n33_w007_02.26_topoma"

\* C12 as stated: the same export is named rabat_1km_n33_w008_02.26_topoma
C12_ExampleBaseNameAsStated ==
    (/\ input # <<>> /\ output # <<>>
     /\ input[1].feature = "Rectangle_2" /\ input[1].path = "drawend"
     /\ input[1].currentScale = 100000 /\ input[1].locationName = "rabat"
     /\ input[1].date = [month |-> 2, year |-> 2026])
        => output[1].baseName = "rabat_1km_n33_w008_02.26_topoma"

\* the example was packaged: its selection is centred within a thousandth of a
\* degree of 33.5731 N, 7.5898 W and its scale carries the label "1 km"
C12_ExamplePacked ==
    /\ input # <<>> /\ output # <<>>
    /\ input[1].feature = "Rectangle_2" /\ input[1].path = "drawend"
    /\ input[1].currentScale = 100000 /\ input[1].locationName = "rabat"
    /\ input[1].date = [month |-> 2, year |-> 2026]
    /\ Abs(ExportDataOf(input[1]).lat - 33573) <= 1
    /\ Abs(ExportDataOf(input[1]).lng + 7590) <= 1
    /\ FindScale(EXPORT_SCALES, 100000)[1].label = "1 km"

\* C13: every base name is {slug}_{label}_{n|s}{floor|lat|}_{e|w}{floor|lon|, 3
\* digits}_{MM.YY}_topoma, lat and lon being the centre of the selection's bounds,
\* n/e for values >= 0, the label being the scale's label without whitespace (a
\* scale the export list does not label is written as its number)
C13_BaseNameFormat ==
    output # <<>> =>
        LET in     == input[1]
            center == toLonLat(ExtentCenter(ExportDataOf(in).bounds))
            lat    == center[2]
            lon    == center[1]
            entry  == FindScale(EXPORT_SCALES, in.currentScale)
            label  == IF entry # <<>> THEN StripWhitespace(entry[1].label)
                      ELSE ToString(in.currentScale)
            mm     == IF in.date.month < 10 THEN "0" \o ToString(in.date.month)
                      ELSE ToString(in.date.month)
            y2     == in.date.year % 100
            yy     == IF y2 < 10 THEN "0" \o ToString(y2) ELSE ToString(y2)
            latDeg == ToString(Abs(lat) \div 1000)
            d      == Abs(lon) \div 1000
            lonDeg == IF d < 10 THEN "00" \o ToString(d)
                      ELSE IF d < 100 THEN "0" \o ToString(d) ELSE ToString(d)
        IN  output[1].baseName =
                in.locationName \o "_" \o label \o "_"
                    \o (IF lat >= 0 THEN "n" ELSE "s") \o latDeg \o "_"
                    \o (IF lon >= 0 THEN "e" ELSE "w") \o lonDeg \o "_"
                    \o mm \o "." \o yy \o "_topoma"

\* a shape selected by a click was packaged, and the corner its name is taken from
\* lies in another degree of longitude than the centre of the selection
C13_NamedAfterCorner ==
    /\ input # <<>> /\ output # <<>>
    /\ input[1].path = "select"
    /\ Abs(ExportDataOf(input[1]).lng) \div 1000
         # Abs(toLonLat(ExtentCenter(ExportDataOf(input[1]).bounds))[1]) \div 1000

\* C14: the world file has six lines: x-scale, y-rotation, x-rotation, y-scale,
\* top-left x, top-left y; the rotations are zero, the x-scale is
\* (maxLon - minLon) / width and positive, the y-scale is -(maxLat - minLat) / height
\* and negative, the origin is (minLon, maxLat) of the exported extent
C14_WorldFile ==
    output # <<>> =>
        LET t      == output[1].tfw
            e      == GeomExtent(input[1].feature)
            minLon == LonMicro(e[1])
            maxLon == LonMicro(e[3])
            minLat == LatMicro(e[2])
            maxLat == LatMicro(e[4])
        IN  /\ Len(t) = 6
            /\ t[2] = 0 /\ t[3] = 0
            /\ t[1] = ((maxLon - minLon) * 1000) \div input[1].canvas.width
            /\ t[1] > 0
            /\ t[4] = -(((maxLat - minLat) * 1000) \div input[1].canvas.height)
            /\ t[4] < 0
            /\ t[5] = minLon /\ t[6] = maxLat
            /\ minLon < maxLon /\ minLat < maxLat

\* a world file was written for an extent in the southern and eastern hemispheres
\* on a canvas that is not square
C14_WorldFileWritten ==
    /\ input # <<>> /\ output # <<>>
    /\ input[1].feature = "Polygon_4"
    /\ input[1].canvas.width # input[1].canvas.height
    /\ output[1].tfw[6] < 0 /\ output[1].tfw[5] > 0

\* C15: a 100 x 100 px raster over a 1000 x 1000 m extent: the x-scale of the world
\* file is the 0.0089832 degrees of longitude the extent spans divided by 100,
\* 0.0000898 degrees per pixel (here in 1e-9 degrees), and the y-scale is negative
\* and no larger in magnitude
C15_ExampleScales ==
    (/\ input # <<>> /\ output # <<>>
     /\ input[1].feature = "Rectangle_2"
     /\ input[1].canvas = [width |-> 100, height |-> 100])
        => /\ output[1].tfw[1] \in 89800..89860
           /\ output[1].tfw[4] < 0
           /\ -output[1].tfw[4] <= output[1].tfw[1]

\* C15 as stated: the x-scale is +10.0 and the y-scale -10.0, each within 0.01
\* (compared in thousandths)
C15_ExampleScalesAsStated ==
    (/\ input # <<>> /\ output # <<>>
     /\ input[1].feature = "Rectangle_2"
     /\ input[1].canvas = [width |-> 100, height |-> 100])
        => /\ output[1].tfw[1] \div 1000000 \in 9990..10010
           /\ (-output[1].tfw[4]) \div 1000000 \in 9990..10010

\* the 100 x 100 px raster over the 1000 x 1000 m extent was packaged
C15_ExamplePacked ==
    /\ input # <<>> /\ output # <<>>
    /\ input[1].feature = "Rectangle_2"
    /\ input[1].canvas = [width |-> 100, height |-> 100]
    /\ GeomExtent("Rectangle_2")[3] - GeomExtent("Rectangle_2")[1] = 1000
    /\ GeomExtent("Rectangle_2")[4] - GeomExtent("Rectangle_2")[2] = 1000
    /\ output[1].tfw[1] > 0

C17_InvalidLatitudeRefused ==
    (/\ output # <<>>
     /\ (input[1].lat <= -89500 \/ input[1].lat >= 89500))
        => output[1].error = "InvalidLatitudeError"

\* a resolution was returned for a latitude of 89.6 degrees
C17_ResolutionNearPole ==
    /\ output # <<>>
    /\ output[1].fn = "getResolutionFromScale"
    /\ input[1].lat = 89600
    /\ output[1].error = "none"
    /\ output[1].resolution > 0

(***************************************************************************)
(* Properties of the projections and of the spreadsheet import.            *)
(***************************************************************************)
\* C18: for a projected zone projectFromZone returns the transformed position
\* exactly when the transform returned one without NaN inside latitude 20..38 and
\* longitude -19..1; in every other case, a throwing transform included, it
\* returns null; no exception leaves it
C18_NullOutsideEnvelope ==
    (/\ output # <<>>
     /\ output[1].fn = "projectFromZone"
     /\ input[1].zoneCode \in ProjectedZones)
        => LET c      == input[1].coords
               inside == /\ c.kind = "coords"
                         /\ ~c.lng.nan /\ ~c.lat.nan
                         /\ c.lat.v \in 20000..38000
                         /\ c.lng.v \in -19000..1000
               r      == output[1].result
           IN  /\ ~r.thrown
               /\ r.value = IF inside THEN <<c.lng, c.lat>> ELSE <<>>

\* null was returned for a position just outside the envelope, for a NaN and for
\* a throwing transform
C18_Refused ==
    /\ output # <<>>
    /\ output[1].fn = "projectFromZone"
    /\ input[1].zoneCode = "EPSG:26191"
    /\ output[1].result.value = <<>>
    /\ \/ input[1].coords.kind = "throws"
       \/ input[1].coords.lat = Num(38001)
       \/ input[1].coords.lng = NaN

C21_IntendedValueParsed ==
    (output # <<>> /\ output[1].fn = "parseCoordinateValue")
        => output[1].value = Num(input[1].intended)

\* the text "1,234,567.89" was parsed and the result is 1.234
C21_CommaThousandsMisread ==
    /\ output # <<>>
    /\ output[1].fn = "parseCoordinateValue"
    /\ input[1].val = StringCell("1,234,567.89")
    /\ input[1].intended = 1234567890
    /\ output[1].value = Num(1234)

\* C22: when the parser of an imported file throws, a message is shown to the
\* user, the layer list is as it was before the import (the file's layer is not
\* in it) and the features already loaded are untouched
C22_FailedImportReported ==
    [][\A l \in LayerIds :
          FileLoaded(l, KmlIds, TRUE) =>
              /\ alert' # "none"
              /\ l \notin layers'
              /\ kmlSource' = kmlSource]_vars

\* the import of layer_1 is over, none of its features was loaded, its layer is
\* listed and selected, and no message is shown
C22_EmptyLayerListed ==
    /\ "layer_1" \in layers
    /\ "layer_1" \notin loadPending
    /\ selectedLayerId = "layer_1"
    /\ KmlFeatures("layer_1") = {}
    /\ alert = "none"

\* C23: in a drawing or a spreadsheet, an entity or row whose point fails
\* projection is the only one rejected: every line whose two ends project and
\* every row whose point projects is loaded, in order, whatever fails around it
C23_OnlyFailingEntityRejected ==
    output # <<>> =>
        /\ output[1].fn = "loadDXF" =>
              LET entities == input[1].entities
                  good     == {i \in 1..Len(entities) : entities[i].kind = "line"}
              IN  /\ Len(output[1].features) = Cardinality(good)
                  /\ \A k \in 1..Len(output[1].features) : output[1].features[k].of = "line"
        /\ (output[1].fn = "processExcelFile" /\ input[1].readable) =>
              LET rows == input[1].rows
                  good == {i \in 1..Len(rows) : rows[i].kind \in {"numbers", "text", "prefix"}}
              IN  Len(output[1].points) = Cardinality(good)

\* a drawing was read whose second line fails projection between two lines that
\* project, and both of those were loaded
C23_FailingLineBetweenGoodOnes ==
    /\ output # <<>>
    /\ output[1].fn = "loadDXF"
    /\ Len(input[1].entities) = 3
    /\ input[1].entities[1].kind = "line"
    /\ input[1].entities[2].kind = "endFails"
    /\ input[1].entities[3].kind = "line"
    /\ input[1].zoneCode = "EPSG:26191"
    /\ Len(output[1].features) = 2

\* C24: no two features on the map, drawn, entered, located or imported, have
\* the same identifier
C24_IdentifiersUnique ==
    (output # <<>> /\ output[1].fn = "features") =>
        LET all == output[1].source \cup output[1].pointsSource \cup output[1].kmlSource
        IN  \A f, g \in all : f.uid # g.uid => f.id # g.id

\* the user was located twice and both points are on the map with no identifier
C24_TwoLocatedPoints ==
    /\ output # <<>>
    /\ output[1].fn = "features"
    /\ Len(input[1]) = 2
    /\ input[1][1].op = "locateUser"
    /\ input[1][2].op = "locateUser"
    /\ input[1][1].now < input[1][2].now
    /\ output[1].pointsSource = {[uid |-> 1, id |-> <<>>], [uid |-> 2, id |-> <<>>]}

\* C25: the union box of a list of features contains the box the list had before
\* its last feature was added and the extent of every feature of the list, the
\* box of a single feature is that feature's extent, and the box is the one the
\* selection handlers compute
C25_UnionNeverShrinks ==
    (output # <<>> /\ output[1].fn = "getMapCanvas.extent") =>
        LET fs == input[1]
            b  == output[1].before
            e  == output[1].extent
        IN  /\ Len(fs) > 1 => (e[1] <= b[1] /\ e[2] <= b[2] /\ e[3] >= b[3] /\ e[4] >= b[4])
            /\ \A i \in 1..Len(fs) :
                  LET g == GeomExtent(fs[i])
                  IN  e[1] <= g[1] /\ e[2] <= g[2] /\ e[3] >= g[3] /\ e[4] >= g[4]
            /\ Len(fs) = 1 => e = GeomExtent(fs[1])
            /\ e = UnionExtent(Range(fs))

\* a far polygon was added to a rectangle and a point, and the box grew to hold
\* all three
C25_BoxGrew ==
    /\ output # <<>>
    /\ output[1].fn = "getMapCanvas.extent"
    /\ input[1] = <<"Rectangle_1", "pt_1", "Polygon_4">>
    /\ output[1].before = <<-850000, 3900000, -840000, 3975000>>
    /\ output[1].extent = <<-850000, -2001000, 1004000, 3975000>>

\* C26: the export raster is ceiling(span / resolution) pixels wide and high,
\* the least whole numbers of pixels that cover the union bounding box of the
\* target, at the resolution the chosen scale gives at the latitude of the
\* centre of that box
C26_RasterCoversBox ==
    (output # <<>> /\ output[1].fn = "getMapCanvas.size") =>
        LET o      == output[1]
            e      == UnionExtent(Range(input[1].features))
            spanX  == (e[3] - e[1]) * 100000
            spanY  == (e[4] - e[2]) * 100000
            centre == <<(e[1] + e[3]) \div 2, (e[2] + e[4]) \div 2>>
        IN  /\ o.extent = e
            /\ o.res = getResolutionFromScale(input[1].targetScale, LatMilli(centre[2]))
            /\ o.res > 0
            /\ o.width * o.res >= spanX
            /\ (o.width - 1) * o.res < spanX
            /\ o.height * o.res >= spanY
            /\ (o.height - 1) * o.res < spanY

\* a rectangle of 5 km and a line below it were sized at 1:5000: the raster is
\* not a whole number of pixels and was rounded up
C26_RasterRoundedUp ==
    /\ output # <<>>
    /\ output[1].fn = "getMapCanvas.size"
    /\ input[1].features = <<"Rectangle_1", "Line_6">>
    /\ input[1].targetScale = 5000
    /\ output[1].extent = <<-846000, 3969000, -840000, 3975000>>
    /\ (output[1].width * output[1].res) > 600000000
    /\ output[1].width = output[1].height

\* C27: when getMapCanvas sizes an export whose target is "manual", the box it
\* takes contains the extent of every drawn shape and of every point on the map
C27_ManualBoxHoldsPoints ==
    [][\A i \in 1..Len(exports) :
          (/\ i <= Len(exports')
           /\ exports[i].stage = "timer"
           /\ exports'[i].stage = "rendering"
           /\ exports[i].layerId = "manual")
              => \A f \in Range(source) \cup pointsSource :
                    LET g == GeomExtent(f)
                        e == exports'[i].extent
                    IN  e[1] <= g[1] /\ e[2] <= g[2] /\ e[3] >= g[3] /\ e[4] >= g[4]]_vars

\* an export of "manual" is rendering the box of the rectangle alone while a
\* point entered by its coordinates lies on the map outside of that box
C27_PointLeftOut ==
    /\ Len(exports) > 0
    /\ exports[1].stage = "rendering"
    /\ exports[1].layerId = "manual"
    /\ source = <<"Rectangle_1">>
    /\ "pt_1" \in pointsSource
    /\ exports[1].extent = GeomExtent("Rectangle_1")

\* C28: however the selection is made, its summary has an area exactly when the
\* selected geometry (the first of the selection) is a Polygon and a perimeter
\* exactly when it is a Polygon or a LineString; a Point has neither
C28_SummaryByGeometry ==
    (output # <<>> /\ output[1].fn = "onSelectionComplete") =>
        LET first == input[1].features[1]
        IN  /\ output[1].data.area = IsPolygon(first)
            /\ output[1].data.perimeter = (IsPolygon(first) \/ IsLineString(first))

\* a polygon was selected by a click and its summary has neither area nor
\* perimeter
C28_ClickedPolygonBare ==
    /\ output # <<>>
    /\ output[1].fn = "onSelectionComplete"
    /\ input[1].way = "click"
    /\ input[1].features = <<"Polygon_3">>
    /\ ~output[1].data.area
    /\ ~output[1].data.perimeter

\* C30: however the selection is made, the latitude and longitude reported with
\* it are those of the centre of its bounding box
C30_PositionIsBoxCentre ==
    (output # <<>> /\ output[1].fn = "onSelectionComplete") =>
        LET data == output[1].data
            b    == data.bounds
        IN  /\ data.lng = LonMilli((b[1] + b[3]) \div 2)
            /\ data.lat = LatMilli((b[2] + b[4]) \div 2)

\* a rectangle of 5 km was selected by a click and the position reported is its
\* south-west corner, not its centre
C30_ClickReportsCorner ==
    /\ output # <<>>
    /\ output[1].fn = "onSelectionComplete"
    /\ input[1].way = "click"
    /\ input[1].features = <<"Rectangle_1">>
    /\ output[1].data.bounds = <<-845000, 3970000, -840000, 3975000>>
    /\ output[1].data.lng = LonMilli(-845000)
    /\ output[1].data.lat = LatMilli(3970000)
    /\ output[1].data.lat # LatMilli(3972500)

LookupFailed == input # <<>> /\ input[1].response \in FailedResponses

C29_FunctionsDegrade ==
    output # <<>> =>
        /\ ~output[1].thrown
        /\ (LookupFailed /\ output[1].fn = "fetchLocationName") => output[1].value = "location"
        /\ (LookupFailed /\ output[1].fn = "searchPlaces") => output[1].value = <<>>
        /\ (LookupFailed /\ output[1].fn = "fetchElevation") => output[1].value = 0

C29_HandlersGoOn ==
    /\ \A req \in geoPending :
          geocodeResponse(req, FALSE) =>
              /\ locationName' = "location"
              /\ UNCHANGED <<step, exportData, exports, alert>>
    /\ \A q \in searchPending :
          searchResponse(q, FALSE) =>
              /\ searchResults' = <<>>
              /\ UNCHANGED <<step, exportData, exports, alert>>
    /\ \A p \in elevPending :
          elevationResponse(p, FALSE) =>
              /\ (popupContent # <<>> => popupContent'[1].z = <<0>>)
              /\ UNCHANGED <<step, exportData, exports, alert>>

\* C29: a lookup whose request or decoding fails gives its placeholder
\* ("location", the empty list, 0) and no lookup throws; when the failed lookup
\* settles in its handler, the step, the selection and the exports in progress
\* are left as they were and no error is shown
C29_LookupsDegrade == []C29_FunctionsDegrade /\ [][C29_HandlersGoOn]_vars

\* the elevation request was rejected and 0 was returned
C29_ElevationDefaulted ==
    /\ output # <<>>
    /\ output[1].fn = "fetchElevation"
    /\ input[1].response.kind = "rejected"
    /\ output[1].value = 0
    /\ ~output[1].thrown

(***************************************************************************)
(* Properties of the workflow state.                                       *)
(***************************************************************************)
\* C31: whenever step is SELECTED, the export target selectedLayerId resolves
\* to at least one feature that is on the map
C31_SelectedTargetResolves ==
    step = "SELECTED" => TargetFeatures(selectedLayerId) # {}

\* the rectangle drawn last was undone: the step is still SELECTED and the
\* selection data and the target still name the removed rectangle
C31_SelectionOutlivesFeature ==
    /\ step = "SELECTED"
    /\ selectedLayerId = "Rectangle_1"
    /\ exportData # <<>>
    /\ exportData[1].featureId = "Rectangle_1"
    /\ source = <<>>
    /\ TargetFeatures(selectedLayerId) = {}
    /\ loadPending = {}

\* C32: a step of PROCESSING is always followed by a step of DONE or IDLE,
\* whether the capture succeeds, has no 2D context, or throws
C32_ProcessingEnds ==
    (step = "PROCESSING") ~> (step \in {"DONE", "IDLE"})

\* an export whose capture canvas had no 2D context has ended: the step went
\* from PROCESSING to IDLE with "Empty Canvas" caught
C32_FailedCaptureEnded ==
    /\ step = "IDLE"
    /\ caught = <<"Empty Canvas">>
    /\ alert = ErrMsg
    /\ exports = <<>>
    /\ layersVisible = FALSE

\* C33: from resetAll until the next selection (exportData is empty all that
\* time) the step is IDLE and zipBlob and exportResult are empty, whatever
\* export was pending or in flight when resetAll ran
C33_ResetStaysIdle ==
    exportData = <<>> => (step = "IDLE" /\ zipBlob = <<>> /\ exportResult = <<>>)

\* an export that was rendering when resetAll ran has finished: nothing is
\* selected or drawn, yet the step is DONE and its archive is stored
C33_ArtifactAfterReset ==
    /\ exportData = <<>>
    /\ source = <<>>
    /\ exports = <<>>
    /\ step = "DONE"
    /\ zipBlob # <<>>
    /\ exportResult # <<>>

\* C34 (under SpecNaming): the location slug of a stored archive's base name is
\* what reverse geocoding answers for the position in that same base name: the
\* place found there, or the "location" of a lookup that failed
C34_SlugOfExportedSelection ==
    zipBlob # <<>> =>
        zipBlob[1].loc \in {PlaceAt(zipBlob[1].lat, zipBlob[1].lng), DefaultLocation}

\* the archive of the second selection carries the place name of the first: its
\* export started while the second lookup was still in flight
C34_SlugOfEarlierSelection ==
    /\ step = "DONE"
    /\ zipBlob # <<>>
    /\ exportData # <<>>
    /\ zipBlob[1].lat = exportData[1].lat
    /\ zipBlob[1].lng = exportData[1].lng
    /\ zipBlob[1].loc # DefaultLocation
    /\ zipBlob[1].loc # GeoRequest(exportData[1])

\* C35: whenever the step is DONE the archive is stored, the result entry is
\* stored, and fileName is the .zip of the base name of exportResult.name
C35_DoneHasArtifact ==
    step = "DONE" =>
        /\ zipBlob # <<>>
        /\ exportResult # <<>>
        /\ fileName # <<>>
        /\ fileName[1].ext = "zip"
        /\ exportResult[1].ext = "tif"
        /\ fileName[1].base = exportResult[1].base

\* downloadFile has just handed out the archive of an export that finished
\* after resetAll: the step is DONE with the three values of that export
C35_DownloadedAfterReset ==
    /\ step = "DONE"
    /\ exportData = <<>>
    /\ downloaded # <<>>
    /\ downloaded = fileName
    /\ zipBlob # <<>>
    /\ exportResult # <<>>

\* C36 (under SpecRaster): the capture canvas getMapCanvas sizes for a target of
\* at least one feature, whose pixels startClipping reads for the TIFF encoder,
\* is at least 1 pixel wide and 1 pixel high
C36_RasterHasPixels ==
    (output # <<>> /\ output[1].fn = "getMapCanvas.size") =>
        (output[1].width >= 1 /\ output[1].height >= 1)

\* the target is one point: its box has no width and no height, and the canvas
\* is sized 0 by 0
C36_PointRasterEmpty ==
    /\ output # <<>>
    /\ output[1].fn = "getMapCanvas.size"
    /\ input[1].features = <<"Point_5">>
    /\ output[1].extent = GeomExtent("Point_5")
    /\ output[1].width = 0
    /\ output[1].height = 0

\* C37 (under SpecUnion): after the union bounding box of the features has been
\* computed, the geometry of every feature still has its own extent
C37_ExtentsUntouched ==
    (output # <<>> /\ output[1].fn = "selectLayer.extent") =>
        \A i \in 1..Len(input[1]) : output[1].extents[i] = GeomExtent(input[1][i])

\* the box of a rectangle and a polygon 45 km to its west was computed: the
\* rectangle's geometry now reports the union as its extent, the polygon's
\* still reports its own
C37_FirstExtentIsUnion ==
    /\ output # <<>>
    /\ output[1].fn = "selectLayer.extent"
    /\ input[1] = <<"Rectangle_1", "Polygon_3">>
    /\ output[1].extent = UnionExtent({"Rectangle_1", "Polygon_3"})
    /\ output[1].extents[1] = output[1].extent
    /\ output[1].extents[1] # GeomExtent("Rectangle_1")
    /\ output[1].extents[2] = GeomExtent("Polygon_3")

\* C38 (under SpecDrawn): once no notification timer of a drawend is left to
\* fire, manualFeatures lists exactly the features of the drawn-shapes source
\* and of the points source
C38_ManualFeaturesMirrorSources ==
    ~notifyPending => manualFeatures = Range(source) \cup pointsSource

\* the user was located: the point is on the map with its popup, no timer is
\* pending, and manualFeatures does not list it
C38_LocatedPointUnlisted ==
    /\ ~notifyPending
    /\ "Moi" \in pointsSource
    /\ "Moi" \notin manualFeatures
    /\ popupContent # <<>>
    /\ popupContent[1].label = "Moi"
    /\ manualFeatures = Range(source)

\* C39 (under SpecCapture): in clip mode LAYER the listener clips once, to a
\* path made of the outer ring of every polygon of every Polygon and
\* MultiPolygon target and of nothing else, before it draws any layer canvas;
\* in clip mode CANVAS it builds no path and does not clip, and draws every
\* rendered canvas; in both modes no canvas of a vector layer is drawn
C39_ClipBeforeComposite ==
    (output # <<>> /\ output[1].fn = "getMapCanvas.capture") =>
        LET ops    == output[1].ops
            At(o)  == {k \in 1..Len(ops) : ops[k].op = o}
            shaped == {f \in Range(input[1].features) :
                          GeometryType(f) \in {"Polygon", "MultiPolygon"}}
            outer  == UNION {{Polygons(f)[j][1] : j \in 1..Len(Polygons(f))} : f \in shaped}
        IN  /\ input[1].clipMode = "LAYER" =>
                  /\ Cardinality(At("clip")) = 1
                  /\ \A c \in At("clip") :
                        /\ \A d \in At("drawImage") : c < d
                        /\ \A r \in At("ring") : r < c
                        /\ \A b \in At("beginPath") : \A r \in At("ring") : b < r
                  /\ {ops[k].arg : k \in At("ring")} = outer
            /\ input[1].clipMode = "CANVAS" =>
                  /\ At("clip") = {} /\ At("ring") = {}
                  /\ input[1].width > 0 => {ops[k].arg : k \in At("drawImage")} = {"base"}
            /\ \A d \in At("drawImage") :
                  \A i \in 1..Len(MapLayers) :
                      MapLayers[i].name = ops[d].arg => MapLayers[i].class # "VectorLayer"

\* a polygon with a hole, a two-part multipolygon and a line were captured in
\* clip mode LAYER: the path holds the three outer rings, then the clip, then
\* the base layer is drawn
C39_ClippedToThreeRings ==
    /\ output # <<>>
    /\ output[1].fn = "getMapCanvas.capture"
    /\ input[1].clipMode = "LAYER"
    /\ input[1].features = <<"Polygon_3", "Multi_8", "Line_6">>
    /\ output[1].ops = <<CanvasOp("beginPath", ""),
                         CanvasOp("ring", "Polygon_3.outer"),
                         CanvasOp("ring", "Multi_8.a.outer"),
                         CanvasOp("ring", "Multi_8.b.outer"),
                         CanvasOp("clip", ""),
                         CanvasOp("drawImage", "base")>>

====
